---------------------------- MODULE Spec2Model ----------------------------
(***************************************************************************)
(* A model of the BMKG weather-article bot: the region store               *)
(* (wilayah_db.py), the city selector (city_selector_db.py) and the        *)
(* weather fetcher (bmkg_api.py).                                          *)
(*                                                                         *)
(* Python strings are sequences of one-character strings, so that          *)
(* split, LIKE, SUBSTR, LENGTH, replace and title are computed the way     *)
(* the code computes them.                                                 *)
(***************************************************************************)
EXTENDS Integers, Sequences, FiniteSets, TLC

VARIABLES
    has_table,        \* the SQLite file holds table wilayah_2020
    table,            \* rows of wilayah_2020 in rowid order: <<kode, nama>>
    imports,          \* the dumps imported so far, in order (bounded)
    selected_cities,  \* CitySelector.selected_cities: name -> info
    specific_only,    \* history: every selected city was put there by
                      \* add_specific_city since the last clear
    last,             \* the last call of the store/selector and its result
    wx,               \* the last call of BMKGWeatherAPI and its result
    fetch,            \* the running fetch_all_cities_weather call
    art,              \* the last call of WeatherArticleGenerator and its result
    ai,               \* the GeminiAIGenerator instance and its last call
    udb,              \* the tables of UserDatabase and its last call
    bot,              \* the requests the webhook server is handling
    cli,              \* the run of main.py: module bindings and position
    sess              \* the session of a user: the stored row and context.user_data

vars == <<has_table, table, imports, selected_cities, specific_only, last, wx, fetch,
          art, ai, udb, bot, cli, sess>>

\* Python's None where a string is expected (the timezone argument)
None == "None"

\* None where a city dict, an entry or an observation is expected
NoneRec == [none |-> TRUE]

\* fetchone() returning no row where a kode is expected
NoKode == <<>>

-----------------------------------------------------------------------------
(* Strings *)

UpperChars == <<"A","B","C","D","E","F","G","H","I","J","K","L","M",
                "N","O","P","Q","R","S","T","U","V","W","X","Y","Z">>
LowerChars == <<"a","b","c","d","e","f","g","h","i","j","k","l","m",
                "n","o","p","q","r","s","t","u","v","w","x","y","z">>
DigitChars == <<"0","1","2","3","4","5","6","7","8","9">>

UpperSet == {UpperChars[i] : i \in 1..26}
LowerSet == {LowerChars[i] : i \in 1..26}
DigitSet == {DigitChars[i] : i \in 1..10}

UpperOf == [c \in LowerSet |-> UpperChars[CHOOSE i \in 1..26 : LowerChars[i] = c]]
LowerOf == [c \in UpperSet |-> LowerChars[CHOOSE i \in 1..26 : UpperChars[i] = c]]
DigitOf == [c \in DigitSet |-> (CHOOSE i \in 1..10 : DigitChars[i] = c) - 1]

IsUpper(c) == c \in UpperSet
IsLower(c) == c \in LowerSet
IsDigit(c) == c \in DigitSet
IsCased(c) == IsUpper(c) \/ IsLower(c)

ToUpper(c) == IF IsLower(c) THEN UpperOf[c] ELSE c
ToLower(c) == IF IsUpper(c) THEN LowerOf[c] ELSE c
DigitVal(c) == DigitOf[c]

\* byte order of the characters used, for ORDER BY on a text column
OrdOf ==
    [c \in UpperSet \cup LowerSet \cup DigitSet \cup {" ", "."} |->
        IF c = " " THEN 32
        ELSE IF c = "." THEN 46
        ELSE IF IsDigit(c) THEN 48 + DigitOf[c]
        ELSE IF IsUpper(c) THEN 64 + (CHOOSE i \in 1..26 : UpperChars[i] = c)
        ELSE 96 + (CHOOSE i \in 1..26 : LowerChars[i] = c)]

Ord(c) == OrdOf[c]

Upper(s) == [i \in 1..Len(s) |-> ToUpper(s[i])]

StartsWithAt(s, p, i) ==
    /\ i + Len(p) - 1 <= Len(s)
    /\ \A k \in 1..Len(p) : s[i + k - 1] = p[k]

\* str.split(sep)[0] for a one-character separator
RECURSIVE FirstSegmentFrom(_, _, _)
FirstSegmentFrom(s, sep, i) ==
    IF i > Len(s) \/ s[i] = sep THEN SubSeq(s, 1, i - 1)
    ELSE FirstSegmentFrom(s, sep, i + 1)

FirstSegment(s, sep) == FirstSegmentFrom(s, sep, 1)

\* str.replace(old, ""): every non-overlapping occurrence, left to right
RECURSIVE RemoveAllFrom(_, _, _)
RemoveAllFrom(s, old, i) ==
    IF i > Len(s) THEN <<>>
    ELSE IF StartsWithAt(s, old, i) THEN RemoveAllFrom(s, old, i + Len(old))
    ELSE <<s[i]>> \o RemoveAllFrom(s, old, i + 1)

RemoveAll(s, old) == RemoveAllFrom(s, old, 1)

\* str.title(): a cased character is upper-cased after an uncased one (or at
\* the start) and lower-cased after a cased one
Title(s) ==
    [i \in 1..Len(s) |->
        IF i > 1 /\ IsCased(s[i - 1]) THEN ToLower(s[i]) ELSE ToUpper(s[i])]

\* SQLite "x LIKE 'p%'": ASCII case-insensitive prefix
LikePrefix(s, p) == StartsWithAt(Upper(s), Upper(p), 1)

\* SQLite "UPPER(x) LIKE UPPER('%q%')": case-insensitive substring
LikeContains(s, q) == \E i \in 1..(Len(s) + 1) : StartsWithAt(Upper(s), Upper(q), i)

\* SQLite SUBSTR(s, start, n) for start >= 1
Substr(s, start, n) ==
    SubSeq(s, start, IF start + n - 1 <= Len(s) THEN start + n - 1 ELSE Len(s))

\* SQLite CAST(text AS INTEGER): the longest digit prefix, 0 when there is none
RECURSIVE CastIntegerFrom(_, _, _)
CastIntegerFrom(s, i, acc) ==
    IF i > Len(s) \/ ~IsDigit(s[i]) THEN acc
    ELSE CastIntegerFrom(s, i + 1, 10 * acc + DigitVal(s[i]))

CastInteger(s) == CastIntegerFrom(s, 1, 0)

\* s < t in byte order
RECURSIVE StrLessFrom(_, _, _)
StrLessFrom(s, t, i) ==
    IF i > Len(t) THEN FALSE
    ELSE IF i > Len(s) THEN TRUE
    ELSE IF Ord(s[i]) < Ord(t[i]) THEN TRUE
    ELSE IF Ord(s[i]) > Ord(t[i]) THEN FALSE
    ELSE StrLessFrom(s, t, i + 1)

StrLess(s, t) == StrLessFrom(s, t, 1)

-----------------------------------------------------------------------------
(* Region store: wilayah_db.py *)

TzEntry(code, tz, off) == [code |-> code, tz |-> tz, off |-> off]

\* self.timezone_mapping, in the order the dict literal lists its keys
TimezoneMapping == <<
    TzEntry(<<"1","1">>, "WIB", 7),
    TzEntry(<<"1","2">>, "WIB", 7),
    TzEntry(<<"1","3">>, "WIB", 7),
    TzEntry(<<"1","4">>, "WIB", 7),
    TzEntry(<<"1","5">>, "WIB", 7),
    TzEntry(<<"1","6">>, "WIB", 7),
    TzEntry(<<"1","7">>, "WIB", 7),
    TzEntry(<<"1","8">>, "WIB", 7),
    TzEntry(<<"1","9">>, "WIB", 7),
    TzEntry(<<"2","1">>, "WIB", 7),
    TzEntry(<<"3","1">>, "WIB", 7),
    TzEntry(<<"3","2">>, "WIB", 7),
    TzEntry(<<"3","3">>, "WIB", 7),
    TzEntry(<<"3","4">>, "WIB", 7),
    TzEntry(<<"3","5">>, "WIB", 7),
    TzEntry(<<"3","6">>, "WIB", 7),
    TzEntry(<<"6","1">>, "WIB", 7),
    TzEntry(<<"6","2">>, "WITA", 8),
    TzEntry(<<"6","3">>, "WITA", 8),
    TzEntry(<<"6","4">>, "WITA", 8),
    TzEntry(<<"6","5">>, "WITA", 8),
    TzEntry(<<"5","1">>, "WITA", 8),
    TzEntry(<<"5","2">>, "WITA", 8),
    TzEntry(<<"5","3">>, "WITA", 8),
    TzEntry(<<"7","1">>, "WITA", 8),
    TzEntry(<<"7","2">>, "WITA", 8),
    TzEntry(<<"7","3">>, "WITA", 8),
    TzEntry(<<"7","4">>, "WITA", 8),
    TzEntry(<<"7","5">>, "WITA", 8),
    TzEntry(<<"7","6">>, "WITA", 8),
    TzEntry(<<"8","1">>, "WIT", 9),
    TzEntry(<<"8","2">>, "WIT", 9),
    TzEntry(<<"9","1">>, "WIT", 9),
    TzEntry(<<"9","2">>, "WIT", 9),
    TzEntry(<<"9","3">>, "WIT", 9),
    TzEntry(<<"9","4">>, "WIT", 9),
    TzEntry(<<"9","5">>, "WIT", 9),
    TzEntry(<<"9","6">>, "WIT", 9) >>

TimezoneNames == <<"WIB", "WITA", "WIT">>

Row(kode, nama) == [kode |-> kode, nama |-> nama]

\* The (kode, nama) pairs the import extracts from a dump file (all_values).
\* Sql_wilayah: provinces, regencies, cities of the three zones with their
\* first kelurahan, a city without kelurahan rows (Ambon) and a city of a
\* province the timezone map does not list (99).
Sql_wilayah ==
    <<Row(<<"3","5">>, <<"J","A","W","A"," ","T","I","M","U","R">>),
      Row(<<"3","5",".","0","7">>, <<"K","A","B","."," ","M","A","L","A","N","G">>),
      Row(<<"3","5",".","7","9">>, <<"K","O","T","A"," ","B","A","T","U">>),
      Row(<<"3","5",".","7","9",".","0","1",".","1","0","0","1">>, <<"S","I","S","I","R">>),
      Row(<<"3","2",".","7","6">>, <<"K","O","T","A"," ","D","E","P","O","K">>),
      Row(<<"3","2",".","7","6",".","0","1",".","1","0","0","6">>, <<"D","E","P","O","K">>),
      Row(<<"5","2",".","0","6">>, <<"K","A","B","."," ","B","I","M","A">>),
      Row(<<"5","2",".","7","2">>, <<"K","O","T","A"," ","B","I","M","A">>),
      Row(<<"5","2",".","7","2",".","0","1",".","1","0","0","1">>, <<"T","A","N","J","U","N","G">>),
      Row(<<"7","2",".","7","1">>, <<"K","O","T","A"," ","P","A","L","U">>),
      Row(<<"7","2",".","7","1",".","0","1",".","1","0","0","1">>, <<"U","J","U","N","A">>),
      Row(<<"8","1",".","7","1">>, <<"K","O","T","A"," ","A","M","B","O","N">>),
      Row(<<"8","1",".","7","2">>, <<"K","O","T","A"," ","T","U","A","L">>),
      Row(<<"8","1",".","7","2",".","0","1",".","2","0","0","1">>, <<"T","U","A","L">>),
      Row(<<"9","9",".","7","1">>, <<"K","O","T","A"," ","B","A","R","U">>),
      Row(<<"9","9",".","7","1",".","0","1",".","1","0","0","1">>, <<"B","A","R","U">>)>>

\* a partial dump repeating rows of the first one
Sql_partial ==
    <<Row(<<"3","2">>, <<"J","A","W","A"," ","B","A","R","A","T">>),
      Row(<<"3","2",".","7","6">>, <<"K","O","T","A"," ","D","E","P","O","K">>),
      Row(<<"3","2",".","7","6",".","0","1",".","1","0","0","6">>, <<"D","E","P","O","K">>)>>

SqlFiles == [wilayah |-> Sql_wilayah, partial |-> Sql_partial]

\* sql_file arguments: the two dumps and a path that does not exist
SqlFileNames == {"wilayah", "partial", "missing"}

\* CREATE TABLE IF NOT EXISTS wilayah_2020 (kode varchar(13) NOT NULL,
\* nama varchar(100) DEFAULT NULL): the table declares no PRIMARY KEY and no
\* UNIQUE column, so no stored row can conflict with a new one; NOT NULL on
\* kode is the only constraint, and the extracted values are strings.
ViolatesConstraint(t, row) == FALSE

\* INSERT OR IGNORE INTO wilayah_2020 (kode, nama) VALUES (?, ?)
InsertOrIgnore(t, row) ==
    IF ViolatesConstraint(t, row) THEN t ELSE Append(t, row)

\* cursor.executemany(insert_sql, batch_data) over every batch, in order
RECURSIVE InsertAll(_, _)
InsertAll(t, rows) ==
    IF rows = <<>> THEN t
    ELSE InsertAll(InsertOrIgnore(t, Head(rows)), Tail(rows))

\* the lookup of a province code in self.timezone_mapping, default (WIB, 7)
TimezoneOfProvince(prov_code) ==
    LET hits == {i \in 1..Len(TimezoneMapping) : TimezoneMapping[i].code = prov_code}
    IN  IF hits = {} THEN <<"WIB", 7>>
        ELSE LET e == TimezoneMapping[CHOOSE i \in hits : TRUE]
             IN  <<e.tz, e.off>>

\* faulty variant: the province code taken as the first two characters, kode[:2]
get_timezone_info_FirstTwoChars(kode) == TimezoneOfProvince(Substr(kode, 1, 2))

\* self.timezone_mapping.get(prov_code, ('WIB', 7)) with
\* prov_code = kode.split('.')[0]
get_timezone_info(kode) == TimezoneOfProvince(FirstSegment(kode, "."))

\* ORDER BY nama: insertion into a list sorted by nama, ties in rowid order
RECURSIVE InsertByNama(_, _)
InsertByNama(sorted, row) ==
    IF sorted = <<>> THEN <<row>>
    ELSE IF StrLess(row.nama, Head(sorted).nama) THEN <<row>> \o sorted
    ELSE <<Head(sorted)>> \o InsertByNama(Tail(sorted), row)

RECURSIVE OrderByNama(_)
OrderByNama(rows) ==
    IF rows = <<>> THEN <<>>
    ELSE InsertByNama(OrderByNama(SubSeq(rows, 1, Len(rows) - 1)), rows[Len(rows)])

\* LENGTH(kode) = 5 AND CAST(SUBSTR(kode, 4, 2) AS INTEGER) >= 71
\* AND nama LIKE 'KOTA %'
IsKotaRow(row) ==
    /\ Len(row.kode) = 5
    /\ CastInteger(Substr(row.kode, 4, 2)) >= 71
    /\ LikePrefix(row.nama, <<"K","O","T","A"," ">>)

\* SELECT kode FROM wilayah_2020 WHERE kode LIKE '<kode_kota>.%' AND
\* LENGTH(kode) >= 13 LIMIT 1: the table has no index, so the scan is in
\* rowid order and the first match is returned; NoKode when there is none
FirstKelurahan(t, kode_kota) ==
    LET IsKel(row) == LikePrefix(row.kode, kode_kota \o <<".">>) /\ Len(row.kode) >= 13
        kel == SelectSeq(t, IsKel)
    IN  IF kel = <<>> THEN NoKode ELSE kel[1].kode

\* nama_kota.replace('KAB. ', '').replace('KOTA ', '').title()
CityName(nama) ==
    Title(RemoveAll(RemoveAll(nama, <<"K","A","B","."," ">>), <<"K","O","T","A"," ">>))

\* the dict built for a city row whose first kelurahan code is kel
CityRecord(nama_kota, kel) ==
    [name |-> CityName(nama_kota),
     code |-> kel,
     timezone |-> get_timezone_info(kel)[1],
     timezone_offset |-> get_timezone_info(kel)[2]]

\* for (kode_kota, nama_kota) in results: append the city when it has a
\* kelurahan row
RECURSIVE CitiesOfRows(_, _)
CitiesOfRows(t, rows) ==
    IF rows = <<>> THEN <<>>
    ELSE LET kel == FirstKelurahan(t, Head(rows).kode)
         IN  (IF kel = NoKode THEN <<>> ELSE <<CityRecord(Head(rows).nama, kel)>>)
             \o CitiesOfRows(t, Tail(rows))

\* the query of one province: kode LIKE '<prov_code>.%' and the city
\* conditions, ORDER BY nama
CitiesOfProvince(t, prov_code) ==
    LET InProv(row) == LikePrefix(row.kode, prov_code \o <<".">>) /\ IsKotaRow(row)
    IN  CitiesOfRows(t, OrderByNama(SelectSeq(t, InProv)))

RECURSIVE CitiesOfProvinces(_, _, _)
CitiesOfProvinces(t, timezone, i) ==
    IF i > Len(TimezoneMapping) THEN <<>>
    ELSE (IF TimezoneMapping[i].tz = timezone
          THEN CitiesOfProvince(t, TimezoneMapping[i].code) ELSE <<>>)
         \o CitiesOfProvinces(t, timezone, i + 1)

get_cities_by_timezone(t, timezone) == CitiesOfProvinces(t, timezone, 1)

\* the pool get_random_cities draws from: one zone, or the three zones in
\* the order WIB, WITA, WIT when timezone is None (by_timezone[tz] is the
\* result of get_cities_by_timezone(tz))
CityPool(by_timezone, timezone) ==
    IF timezone # None THEN by_timezone[timezone]
    ELSE by_timezone["WIB"] \o by_timezone["WITA"] \o by_timezone["WIT"]

\* random.sample(cities, count): count distinct positions of the list, in
\* any order
Sample(cities, count) ==
    {[k \in 1..count |-> cities[f[k]]] :
        f \in {g \in [1..count -> 1..Len(cities)] :
                  \A a, b \in 1..count : a # b => g[a] # g[b]}}

\* the lists get_random_cities(count, timezone) can return
get_random_cities(by_timezone, count, timezone) ==
    LET cities == CityPool(by_timezone, timezone)
    IN  IF Len(cities) <= count THEN {cities} ELSE Sample(cities, count)

\* get_city_by_name: the first row in rowid order (LIMIT 1, no ORDER BY, no
\* index) whose nama contains city_name, case-insensitively, under the city
\* conditions; NoneRec when there is no such row or it has no kelurahan row
get_city_by_name(t, city_name) ==
    LET Match(row) == LikeContains(row.nama, city_name) /\ IsKotaRow(row)
        result == SelectSeq(t, Match)
    IN  IF result = <<>> THEN NoneRec
        ELSE LET kel == FirstKelurahan(t, result[1].kode)
             IN  IF kel = NoKode THEN NoneRec ELSE CityRecord(result[1].nama, kel)

\* SELECT DISTINCT: a row equal to an earlier row of the result is dropped
RECURSIVE Distinct(_)
Distinct(rows) ==
    IF rows = <<>> THEN <<>>
    ELSE LET front == Distinct(SubSeq(rows, 1, Len(rows) - 1))
             row == rows[Len(rows)]
         IN  IF \E i \in 1..Len(front) : front[i] = row THEN front
             ELSE Append(front, row)

\* LIMIT ?
Limit(rows, limit) == SubSeq(rows, 1, IF limit <= Len(rows) THEN limit ELSE Len(rows))

\* LENGTH(kode) = 5 AND CAST(SUBSTR(kode, 4, 2) AS INTEGER) >= 71
\* AND (nama LIKE 'KOTA %' OR nama LIKE 'KAB. %')
IsKotaOrKabRow(row) ==
    /\ Len(row.kode) = 5
    /\ CastInteger(Substr(row.kode, 4, 2)) >= 71
    /\ \/ LikePrefix(row.nama, <<"K","O","T","A"," ">>)
       \/ LikePrefix(row.nama, <<"K","A","B","."," ">>)

\* get_cities_by_keyword(keyword, limit): the distinct city rows whose nama
\* contains keyword, ORDER BY nama LIMIT limit, each with its first
\* kelurahan; a row without one is left out
get_cities_by_keyword(t, keyword, limit) ==
    LET Match(row) == LikeContains(row.nama, keyword) /\ IsKotaOrKabRow(row)
    IN  CitiesOfRows(t, Limit(OrderByNama(Distinct(SelectSeq(t, Match))), limit))

-----------------------------------------------------------------------------
(* City selector: city_selector_db.py *)

EmptyDict == <<>>

\* None as the value of an Optional[int] count argument
NoCount == -1

\* d[k] = v on a Python dict
DictSet(d, k, v) == [x \in DOMAIN d \cup {k} |-> IF x = k THEN v ELSE d[x]]

\* the value stored for a city: code, timezone, timezone_offset
CityInfo(city) ==
    [code |-> city.code, timezone |-> city.timezone,
     timezone_offset |-> city.timezone_offset]

\* for city in cities: self.selected_cities[city['name']] = {...}
RECURSIVE AddCities(_, _)
AddCities(d, cities) ==
    IF cities = <<>> THEN d
    ELSE AddCities(DictSet(d, Head(cities).name, CityInfo(Head(cities))), Tail(cities))

\* faulty variant: WIT gets a third of the total instead of the remainder
RequestedCounts_WitThird(total_cities, wib_count, wita_count, wit_count) ==
    IF wib_count = NoCount /\ wita_count = NoCount /\ wit_count = NoCount
    THEN <<total_cities \div 2, total_cities \div 3, total_cities \div 3>>
    ELSE <<wib_count, wita_count, wit_count>>

\* faulty variant: a count left at None is filled up from total_cities
RequestedCounts_FillFromTotal(total_cities, wib_count, wita_count, wit_count) ==
    IF wib_count = NoCount /\ wita_count = NoCount /\ wit_count = NoCount
    THEN <<total_cities \div 2,
           total_cities \div 3,
           total_cities - (total_cities \div 2) - (total_cities \div 3)>>
    ELSE <<IF wib_count = NoCount THEN total_cities ELSE wib_count,
           IF wita_count = NoCount THEN total_cities ELSE wita_count,
           IF wit_count = NoCount THEN total_cities ELSE wit_count>>

\* the counts select_random_cities asks the store for: the given ones, or
\* the split of total_cities when all three are None
RequestedCounts(total_cities, wib_count, wita_count, wit_count) ==
    IF wib_count = NoCount /\ wita_count = NoCount /\ wit_count = NoCount
    THEN <<total_cities \div 2,
           total_cities \div 3,
           total_cities - (total_cities \div 2) - (total_cities \div 3)>>
    ELSE <<wib_count, wita_count, wit_count>>

\* "if wib_count and wib_count > 0": None and 0 skip the zone
ZoneWanted(count) == count # NoCount /\ count # 0 /\ count > 0

\* faulty variant: the selection is not cleared before the drawn cities are added
SelectionAfterRandom_NoClear(prev, cities_wib, cities_wita, cities_wit) ==
    AddCities(AddCities(AddCities(prev, cities_wib), cities_wita), cities_wit)

\* the selection select_random_cities leaves: cleared first, then the drawn
\* cities of WIB, WITA and WIT in this order
SelectionAfterRandom(prev, cities_wib, cities_wita, cities_wit) ==
    AddCities(AddCities(AddCities(EmptyDict, cities_wib), cities_wita), cities_wit)

\* faulty variant: the selection is replaced by the added city
SelectionAfterAdd_Replace(prev, city) == DictSet(EmptyDict, city.name, CityInfo(city))

\* the selection add_specific_city leaves on a hit
SelectionAfterAdd(prev, city) == DictSet(prev, city.name, CityInfo(city))

NamesOf(cities) == {cities[i].name : i \in 1..Len(cities)}

-----------------------------------------------------------------------------
(* Weather fetcher: bmkg_api.py *)

\* the result of a strptime call that raises ValueError
ValueError == -1

\* min_diff = float('inf'): no difference recorded yet
Inf == -1

TwoDigits(s, i) == 10 * DigitVal(s[i]) + DigitVal(s[i + 1])

\* datetime.strptime(s, '%Y-%m-%d %H:%M:%S').hour on zero-padded input: the
\* hour of a string of this shape whose fields are in range, ValueError for
\* anything else (the empty string of a missing key included)
StrptimeHour(s) ==
    IF /\ Len(s) = 19
       /\ s[5] = "-" /\ s[8] = "-" /\ s[11] = " " /\ s[14] = ":" /\ s[17] = ":"
       /\ \A i \in {1, 2, 3, 4, 6, 7, 9, 10, 12, 13, 15, 16, 18, 19} : IsDigit(s[i])
    THEN IF /\ TwoDigits(s, 6) \in 1..12
            /\ TwoDigits(s, 9) \in 1..31
            /\ TwoDigits(s, 12) <= 23
            /\ TwoDigits(s, 15) <= 59
            /\ TwoDigits(s, 18) <= 61
         THEN TwoDigits(s, 12)
         ELSE ValueError
    ELSE ValueError

Abs(n) == IF n < 0 THEN -n ELSE n

\* faulty variant: "if hour_diff <= min_diff", the last of equally distant entries
Closer_OrEqual(hour_diff, min_diff) == min_diff = Inf \/ hour_diff <= min_diff

\* "if hour_diff < min_diff"
Closer(hour_diff, min_diff) == min_diff = Inf \/ hour_diff < min_diff

\* the for loop of find_weather_at_time from entry i on, with the position of
\* closest_weather (0 for None) and min_diff so far; an entry that does not
\* parse is skipped (continue), an exact match ends the loop (break)
RECURSIVE ScanWeather(_, _, _, _, _)
ScanWeather(weather_data, target_hour, i, closest, min_diff) ==
    IF i > Len(weather_data) THEN closest
    ELSE LET hour == StrptimeHour(weather_data[i].local_datetime)
         IN  IF hour = ValueError
             THEN ScanWeather(weather_data, target_hour, i + 1, closest, min_diff)
             ELSE LET hour_diff == Abs(hour - target_hour)
                      closest2 == IF Closer(hour_diff, min_diff) THEN i ELSE closest
                      min2 == IF Closer(hour_diff, min_diff) THEN hour_diff ELSE min_diff
                  IN  IF hour_diff = 0 THEN closest2
                      ELSE ScanWeather(weather_data, target_hour, i + 1, closest2, min2)

\* find_weather_at_time as the position of the entry it returns, 0 for None
find_weather_at_time(weather_data, target_hour) ==
    IF weather_data = <<>> THEN 0
    ELSE ScanWeather(weather_data, target_hour, 1, 0, Inf)

\* response.raise_for_status(): 4xx and 5xx raise HTTPError
RaisesForStatus(status) == status >= 400 /\ status < 600

\* for day_data in cuaca: if isinstance(day_data, list): extend
RECURSIVE Flatten(_)
Flatten(days) ==
    IF days = <<>> THEN <<>>
    ELSE (IF Head(days).is_list THEN Head(days).entries ELSE <<>>) \o Flatten(Tail(days))

\* get_weather_data on the response of the forecast API: the flattened entry
\* list, or <<>> for None (the code never returns an empty list)
get_weather_data(resp) ==
    IF resp.transport # "ok" THEN <<>>
    ELSE IF RaisesForStatus(resp.status) THEN <<>>
    ELSE IF resp.body.kind = "invalid_json" THEN <<>>
    ELSE IF resp.body.kind \in {"null", "no_data_key", "empty_data"} THEN <<>>
    ELSE IF resp.body.kind = "no_cuaca" THEN <<>>
    ELSE Flatten(resp.body.days)

\* the dict get_city_weather returns for an entry
Observation(entry) ==
    [datetime |-> entry.local_datetime,
     temperature |-> entry.t,
     weather |-> entry.weather_desc]

\* faulty variant: no fallback to weather_data[0] when no entry is found
get_city_weather_NoFallback(resp, target_hour) ==
    LET weather_data == get_weather_data(resp)
    IN  IF weather_data = <<>> THEN NoneRec
        ELSE LET at == find_weather_at_time(weather_data, target_hour)
             IN  IF at = 0 THEN NoneRec ELSE Observation(weather_data[at])

\* get_city_weather on the response its request receives; NoneRec for None
get_city_weather(resp, target_hour) ==
    LET weather_data == get_weather_data(resp)
    IN  IF weather_data = <<>> THEN NoneRec
        ELSE LET at == find_weather_at_time(weather_data, target_hour)
             IN  Observation(IF at = 0 THEN weather_data[1] ELSE weather_data[at])

\* "YYYY-MM-DD HH:00:00" of 2025-01-01 for an hour in 0..99
DateTimeOfHour(h) ==
    <<"2","0","2","5","-","0","1","-","0","1"," ",
      DigitChars[(h \div 10) + 1], DigitChars[(h % 10) + 1],
      ":","0","0",":","0","0">>

\* an entry of the cuaca array; a missing local_datetime reads as ''
Entry(local_datetime) ==
    [local_datetime |-> local_datetime, t |-> 27, weather_desc |-> "Cerah"]

\* entries that do not parse: no local_datetime, an ISO "T" separator, hour 24
BadEntries ==
    {Entry(<<>>),
     Entry([DateTimeOfHour(9) EXCEPT ![11] = "T"]),
     Entry(DateTimeOfHour(24))}

\* validate_city_has_data on the response its request receives: only status
\* 200 counts, a day that is no list counts as one entry, and every
\* exception reads as False
validate_city_has_data(resp) ==
    IF resp.transport # "ok" THEN FALSE
    ELSE IF resp.status # 200 THEN FALSE
    ELSE IF resp.body.kind # "cuaca" THEN FALSE
    ELSE \E i \in 1..Len(resp.body.days) :
            ~resp.body.days[i].is_list \/ resp.body.days[i].entries # <<>>

Day(entries) == [is_list |-> TRUE, entries |-> entries]
NonListDay == [is_list |-> FALSE, entries |-> <<>>]
Body(kind, days) == [kind |-> kind, days |-> days]
HttpResponse(status, body) == [transport |-> "ok", status |-> status, body |-> body]

\* requests raising a RequestException (timeout, connection error)
TransportError == [transport |-> "error", status |-> 0, body |-> Body("null", <<>>)]

\* a forecast with entries at 03:00 and 09:00 of one day
GoodResponse ==
    HttpResponse(200, Body("cuaca",
        <<Day(<<Entry(DateTimeOfHour(3)), Entry(DateTimeOfHour(9))>>)>>))

\* "API mengembalikan array cuaca kosong": a region BMKG has no forecast for
NoForecastResponse == HttpResponse(200, Body("cuaca", <<>>))

-----------------------------------------------------------------------------
(* Bounds of the model *)

MaxImports == 2      \* import_from_sql runs on one database file
MaxTotal == 4        \* total_cities ranges over 0..MaxTotal
MaxCount == 1        \* a per-zone count ranges over 0..MaxCount
MaxSample == 2       \* the count of a get_random_cities query: 0..MaxSample

\* city_name arguments: cities of the dump in either case, a substring
\* shared by every city row, a city without kelurahan rows, a city of an
\* unmapped province, and a name the dump does not hold
CityNames ==
    {<<"D","e","p","o","k">>, <<"b","a","t","u">>, <<"B","i","m","a">>,
     <<"P","a","l","u">>, <<"T","u","a","l">>, <<"K","O","T","A">>,
     <<"A","m","b","o","n">>, <<"B","a","r","u">>, <<"M","e","d","a","n">>}

CountArgs == {NoCount} \cup (0..MaxCount)

\* total_cities: int = 5
DefaultTotal == 5

\* the calls of select_random_cities: a total alone, or per-zone counts with
\* total_cities left at its default or given as one city
SelectArgs ==
    {[total_cities |-> n, wib_count |-> NoCount, wita_count |-> NoCount,
      wit_count |-> NoCount] : n \in 0..MaxTotal}
    \cup {[total_cities |-> n, wib_count |-> a, wita_count |-> b,
           wit_count |-> c] : n \in {DefaultTotal, 1}, a, b, c \in CountArgs}

\* kode arguments of get_timezone_info: every string of at most two
\* characters over digits and the dot, alone and followed by ".71" and by
\* ".71.01.1001", and strings that are no codes
KodeChars == DigitSet \cup {"."}
KodePrefixes ==
    {<<>>} \cup {<<a>> : a \in KodeChars} \cup {<<a, b>> : a, b \in KodeChars}
KodeStrings ==
    {p \o q : p \in KodePrefixes,
              q \in {<<>>, <<".","7","1">>,
                      <<".","7","1",".","0","1",".","1","0","0","1">>}}
    \cup {<<"a","b">>, <<"3","1","7","1">>, <<"6","2","7","1">>, <<" ","3","1">>,
          <<"3","1"," ">>}

\* the sequences of dumps a database file can have imported
ImportSeqs ==
    UNION {[1..n -> {"wilayah", "partial"}] : n \in 0..MaxImports}

RECURSIVE TableAfter(_)
TableAfter(imps) ==
    IF imps = <<>> THEN <<>>
    ELSE InsertAll(TableAfter(SubSeq(imps, 1, Len(imps) - 1)), SqlFiles[imps[Len(imps)]])

\* The queries read the table and nothing else, so their results are
\* computed once for every table the imports can build.
Tables == {TableAfter(imps) : imps \in ImportSeqs}

CitiesByTimezone ==
    [t \in Tables |->
        [timezone \in {"WIB", "WITA", "WIT"} |-> get_cities_by_timezone(t, timezone)]]

CityByName ==
    [t \in Tables |-> [city_name \in CityNames |-> get_city_by_name(t, city_name)]]

\* get_cities_by_keyword(keyword, 1) of every table and name
CitiesByKeyword ==
    [t \in Tables |->
        [keyword \in CityNames |-> get_cities_by_keyword(t, keyword, 1)]]

-----------------------------------------------------------------------------
(* The store and the selector as a state machine *)

Idle == [op |-> "init"]
FetchIdle == [pc |-> "idle"]

\* CitySelector(): the database file exists and holds the dump, or it did
\* not exist and import_from_sql found no dump file, which leaves an empty
\* database without the table; self.selected_cities = {}
Init ==
    /\ bot = Idle
    /\ cli = Idle
    /\ sess = Idle
    /\ art = Idle
    /\ ai = Idle
    /\ udb = Idle
    /\ \E imps \in {<<>>, <<"wilayah">>} :
          /\ imports = imps
          /\ table = TableAfter(imps)
          /\ has_table = (imps # <<>>)
    /\ selected_cities = EmptyDict
    /\ specific_only = TRUE
    /\ last = Idle
    /\ wx = Idle
    /\ fetch = FetchIdle

\* import_from_sql(sql_file): False when the file does not exist; otherwise
\* the table is created if missing and every extracted row is inserted
ImportFromSql(sql_file) ==
    /\ Len(imports) < MaxImports
    /\ IF sql_file = "missing"
       THEN /\ last' = [op |-> "import_from_sql", sql_file |-> sql_file, ret |-> FALSE]
            /\ UNCHANGED <<has_table, table, imports, art, ai, udb, bot, cli, sess>>
       ELSE /\ has_table' = TRUE
            /\ table' = InsertAll(table, SqlFiles[sql_file])
            /\ imports' = Append(imports, sql_file)
            /\ last' = [op |-> "import_from_sql", sql_file |-> sql_file, ret |-> TRUE]
    /\ UNCHANGED <<selected_cities, specific_only, wx, fetch, art, ai, udb, bot, cli, sess>>

\* select_random_cities(**args); a
\* query on a database without the table raises sqlite3.OperationalError
\* after the selection was cleared
SelectRandomCities(args) ==
    LET requested == RequestedCounts(args.total_cities, args.wib_count,
                                     args.wita_count, args.wit_count)
        had_specific == specific_only /\ selected_cities # EmptyDict
        Draws(k) == IF ZoneWanted(requested[k])
                    THEN get_random_cities(CitiesByTimezone[table], requested[k],
                                           TimezoneNames[k])
                    ELSE {<<>>}
    IN  IF ~has_table /\ \E k \in 1..3 : ZoneWanted(requested[k])
        THEN /\ selected_cities' = EmptyDict
             /\ specific_only' = TRUE
             /\ last' = [op |-> "select_random_cities", args |-> args,
                         requested |-> requested, had_specific |-> had_specific,
                         drawn |-> {}, ret |-> "raise"]
             /\ UNCHANGED <<has_table, table, imports, wx, fetch, art, ai, udb, bot, cli, sess>>
        ELSE \E cities_wib \in Draws(1), cities_wita \in Draws(2), cities_wit \in Draws(3) :
             /\ selected_cities' =
                    SelectionAfterRandom(selected_cities, cities_wib, cities_wita, cities_wit)
             /\ specific_only' = (selected_cities' = EmptyDict)
             /\ last' = [op |-> "select_random_cities", args |-> args,
                         requested |-> requested, had_specific |-> had_specific,
                         drawn |-> NamesOf(cities_wib \o cities_wita \o cities_wit),
                         ret |-> "ok"]
             /\ UNCHANGED <<has_table, table, imports, wx, fetch, art, ai, udb, bot, cli, sess>>

\* add_specific_city(city_name, validate_api); resp is the answer of the
\* forecast API to the validation request
AddSpecificCity(city_name, validate_api, resp) ==
    LET call == [op |-> "add_specific_city", city_name |-> city_name,
                 validate_api |-> validate_api]
    IN  IF ~has_table
        THEN /\ last' = call @@ [city |-> NoneRec, validated |-> "not asked", ret |-> "raise"]
             /\ UNCHANGED <<has_table, table, imports, selected_cities, specific_only, wx, fetch, art, ai, udb, bot, cli, sess>>
        ELSE LET city == CityByName[table][city_name]
                 validated == IF city = NoneRec \/ ~validate_api THEN "not asked"
                              ELSE IF validate_city_has_data(resp) THEN "has data"
                              ELSE "no data"
             IN  IF city = NoneRec \/ (validate_api /\ ~validate_city_has_data(resp))
                 THEN /\ last' = call @@ [city |-> city, validated |-> validated,
                                          ret |-> "False"]
                      /\ UNCHANGED <<has_table, table, imports, selected_cities,
                                     specific_only, wx, fetch, art, ai, udb, bot, cli, sess>>
                 ELSE /\ selected_cities' = SelectionAfterAdd(selected_cities, city)
                      /\ last' = call @@ [city |-> city, validated |-> validated,
                                          ret |-> "True"]
                      /\ UNCHANGED <<has_table, table, imports, specific_only, wx, fetch, art, ai, udb, bot, cli, sess>>

\* clear_selected_cities()
ClearSelectedCities ==
    /\ selected_cities' = EmptyDict
    /\ specific_only' = TRUE
    /\ last' = [op |-> "clear_selected_cities"]
    /\ UNCHANGED <<has_table, table, imports, wx, fetch, art, ai, udb, bot, cli, sess>>

\* search_city(city_name): results[0] of search_cities(city_name, limit=1),
\* which returns [] when get_cities_by_keyword raises
SearchCity(city_name) ==
    /\ LET results == IF ~has_table THEN <<>> ELSE CitiesByKeyword[table][city_name]
       IN  last' = [op |-> "search_city", city_name |-> city_name,
                    city |-> IF results = <<>> THEN NoneRec ELSE results[1]]
    /\ UNCHANGED <<has_table, table, imports, selected_cities, specific_only, wx, fetch, art, ai, udb, bot, cli, sess>>

\* get_random_cities(count, timezone) called on the store
GetRandomCities(count, timezone) ==
    /\ IF ~has_table
       THEN last' = [op |-> "get_random_cities", count |-> count, timezone |-> timezone,
                     pool |-> <<>>, cities |-> <<>>, ret |-> "raise"]
       ELSE \E cities \in get_random_cities(CitiesByTimezone[table], count, timezone) :
                last' = [op |-> "get_random_cities", count |-> count, timezone |-> timezone,
                         pool |-> CityPool(CitiesByTimezone[table], timezone),
                         cities |-> cities, ret |-> "ok"]
    /\ UNCHANGED <<has_table, table, imports, selected_cities, specific_only, wx, fetch, art, ai, udb, bot, cli, sess>>

\* get_cities_by_timezone(timezone) called on the store: the queries are
\* executed outside any try, and a database without the table raises
\* sqlite3.OperationalError
GetCitiesByTimezone(timezone) ==
    /\ last' = IF ~has_table
                  THEN [op |-> "get_cities_by_timezone", timezone |-> timezone,
                        cities |-> <<>>, ret |-> "raise"]
               ELSE [op |-> "get_cities_by_timezone", timezone |-> timezone,
                     cities |-> CitiesByTimezone[table][timezone], ret |-> "ok"]
    /\ UNCHANGED <<has_table, table, imports, selected_cities, specific_only, wx, fetch, art, ai, udb, bot, cli, sess>>

\* get_city_by_name(city_name) called on the store
GetCityByName(city_name) ==
    /\ last' = IF ~has_table
                  THEN [op |-> "get_city_by_name", city_name |-> city_name,
                        city |-> NoneRec, ret |-> "raise"]
               ELSE [op |-> "get_city_by_name", city_name |-> city_name,
                     city |-> CityByName[table][city_name], ret |-> "ok"]
    /\ UNCHANGED <<has_table, table, imports, selected_cities, specific_only, wx, fetch, art, ai, udb, bot, cli, sess>>

\* get_timezone_info(kode) called on the store
GetTimezoneInfo(kode) ==
    /\ last' = [op |-> "get_timezone_info", kode |-> kode, ret |-> get_timezone_info(kode)]
    /\ UNCHANGED <<has_table, table, imports, selected_cities, specific_only, wx, fetch, art, ai, udb, bot, cli, sess>>

\* the selector of one process
Next ==
    \/ \E args \in SelectArgs : SelectRandomCities(args)
    \/ \E city_name \in CityNames, validate_api \in BOOLEAN,
          resp \in {GoodResponse, NoForecastResponse} :
          AddSpecificCity(city_name, validate_api, resp)
    \/ ClearSelectedCities
    \/ \E city_name \in CityNames : SearchCity(city_name)

Spec == Init /\ [][Next]_vars

\* WilayahDatabase(db_path) on a path that holds no database yet
StoreInit ==
    /\ bot = Idle
    /\ cli = Idle
    /\ sess = Idle
    /\ art = Idle
    /\ ai = Idle
    /\ udb = Idle
    /\ has_table = FALSE
    /\ table = <<>>
    /\ imports = <<>>
    /\ selected_cities = EmptyDict
    /\ specific_only = TRUE
    /\ last = Idle
    /\ wx = Idle
    /\ fetch = FetchIdle

\* the store: imports (dbmanager import) and queries
StoreNext ==
    \/ \E sql_file \in SqlFileNames : ImportFromSql(sql_file)
    \/ \E count \in 0..MaxSample, timezone \in {"WIB", "WITA", "WIT", None} :
          GetRandomCities(count, timezone)
    \/ \E timezone \in {"WIB", "WITA", "WIT"} : GetCitiesByTimezone(timezone)
    \/ \E city_name \in CityNames : GetCityByName(city_name)

StoreSpec == StoreInit /\ [][StoreNext]_vars

\* get_timezone_info on its own: it reads no state
TimezoneNext == \E kode \in KodeStrings : GetTimezoneInfo(kode)

TimezoneSpec == StoreInit /\ [][TimezoneNext]_vars

-----------------------------------------------------------------------------
(* Claims about the region store and the city selector *)

Names(d) == DOMAIN d

\* C1: re-running import_from_sql on a dump the database already imported
\* leaves the number of rows of wilayah_2020 unchanged.
C1_ReimportKeepsRowCount ==
    [][(/\ last'.op = "import_from_sql"
        /\ last'.ret
        /\ \E i \in 1..Len(imports) : imports[i] = last'.sql_file)
       => Len(table') = Len(table)]_vars

WantedTotal(requested) ==
    (IF ZoneWanted(requested[1]) THEN requested[1] ELSE 0)
    + (IF ZoneWanted(requested[2]) THEN requested[2] ELSE 0)
    + (IF ZoneWanted(requested[3]) THEN requested[3] ELSE 0)

\* C3: when the selection holds k < 4 specifically added cities and
\* select_random_cities is called for the 4 - k missing ones, the selection
\* afterwards still holds the k cities and holds 4 cities.
C3_TopUpKeepsAdded ==
    [][(/\ last'.op = "select_random_cities"
        /\ specific_only
        /\ selected_cities # EmptyDict
        /\ Cardinality(Names(selected_cities)) < 4
        /\ WantedTotal(last'.requested) = 4 - Cardinality(Names(selected_cities)))
       => /\ Names(selected_cities) \subseteq Names(selected_cities')
          /\ Cardinality(Names(selected_cities')) = 4]_vars

Min(a, b) == IF a <= b THEN a ELSE b

\* C4: get_random_cities(n, zone) returns min(n, pool size) records, all of
\* the requested zone, no two with the same code, and the whole pool when
\* the pool has at most n members.
C4_RandomCitiesOfZoneDistinct ==
    (last.op = "get_random_cities" /\ last.ret = "ok" /\ last.timezone # None)
    => /\ Len(last.cities) = Min(last.count, Len(last.pool))
       /\ \A i \in 1..Len(last.cities) : last.cities[i].timezone = last.timezone
       /\ \A i, j \in 1..Len(last.cities) :
             i # j => last.cities[i].code # last.cities[j].code
       /\ Len(last.pool) <= last.count => last.cities = last.pool

\* C5: with no per-zone counts the requested counts are total div 2,
\* total div 3 and the rest; they are non-negative and sum to total.
C5_SplitSumsToTotal ==
    (/\ last.op = "select_random_cities"
     /\ last.args.wib_count = NoCount
     /\ last.args.wita_count = NoCount
     /\ last.args.wit_count = NoCount)
    => /\ last.requested[1] = last.args.total_cities \div 2
       /\ last.requested[2] = last.args.total_cities \div 3
       /\ \A k \in 1..3 : last.requested[k] >= 0
       /\ last.requested[1] + last.requested[2] + last.requested[3]
             = last.args.total_cities

\* a total whose split leaves WIT a remainder the two divisions do not give
C5_Witness ==
    /\ last.op = "select_random_cities"
    /\ last.args.wib_count = NoCount
    /\ last.args.wita_count = NoCount
    /\ last.args.wit_count = NoCount
    /\ last.requested = <<2, 1, 1>>

\* C6: add_specific_city on a hit maps the city's name to its record, leaves
\* every other entry as it was and returns True; when no city is found, or
\* validation is asked and finds no data, it returns False and the selection
\* is as before (as it is when the lookup raises).
C6_AddSpecificCity ==
    [][last'.op = "add_specific_city"
       => LET city == last'.city
              hit == city # NoneRec /\ last'.validated # "no data"
          IN  /\ (last'.ret # "raise" /\ hit)
                 => /\ last'.ret = "True"
                    /\ Names(selected_cities') = Names(selected_cities) \cup {city.name}
                    /\ selected_cities'[city.name] = CityInfo(city)
                    /\ \A n \in Names(selected_cities) \ {city.name} :
                          selected_cities'[n] = selected_cities[n]
              /\ (last'.ret # "raise" /\ ~hit)
                 => /\ last'.ret = "False"
                    /\ selected_cities' = selected_cities
              /\ last'.ret = "raise" => selected_cities' = selected_cities]_vars

\* a validated city was added to a selection that holds another city
C6_Witness ==
    /\ last.op = "add_specific_city"
    /\ last.ret = "True"
    /\ last.validated = "has data"
    /\ last.city.name \in Names(selected_cities)
    /\ Cardinality(Names(selected_cities)) >= 2

\* p is the leading dot-separated segment of kode
IsLeadingSegment(kode, p) ==
    /\ \A i \in 1..Len(p) : p[i] # "."
    /\ \/ kode = p
       \/ StartsWithAt(kode, p \o <<".">>, 1)

\* C7: get_timezone_info returns one of (WIB,7), (WITA,8), (WIT,9), and
\* (WIB,7) when the leading segment of the code is no key of the map.
C7_TimezoneInfo ==
    last.op = "get_timezone_info"
    => /\ last.ret \in {<<"WIB", 7>>, <<"WITA", 8>>, <<"WIT", 9>>}
       /\ (\A i \in 1..Len(TimezoneMapping) :
              ~IsLeadingSegment(last.kode, TimezoneMapping[i].code))
          => last.ret = <<"WIB", 7>>

\* a kelurahan code of a WIT province was resolved
C7_Witness ==
    /\ last.op = "get_timezone_info"
    /\ last.kode = <<"9","6",".","7","1",".","0","1",".","1","0","0","1">>
    /\ last.ret = <<"WIT", 9>>

\* the code of an unmapped province fell back to WIB
C7_WitnessDefault ==
    /\ last.op = "get_timezone_info"
    /\ last.kode = <<"9","9",".","7","1">>
    /\ last.ret = <<"WIB", 7>>

-----------------------------------------------------------------------------
(* The weather fetcher as a state machine *)

MaxEntries == 4      \* entries of a weather_data list
MaxDays == 2         \* days of a cuaca array

\* hours of the entries and the target hours asked for
EntryHours == {3, 9, 10, 15, 21}
TargetHours == {10, 12}

EntryKinds == {Entry(DateTimeOfHour(h)) : h \in EntryHours} \cup BadEntries

WeatherLists == UNION {[1..n -> EntryKinds] : n \in 0..MaxEntries}

\* the days of a response: lists of at most two entries (09:00, 15:00 or
\* one that does not parse) and a day that is no list
DayEntryKinds == {Entry(DateTimeOfHour(9)), Entry(DateTimeOfHour(15)), Entry(<<>>)}
DayKinds ==
    {NonListDay, Day(<<>>)}
    \cup {Day(<<a>>) : a \in DayEntryKinds}
    \cup {Day(<<a, b>>) : a, b \in DayEntryKinds}

Bodies ==
    {Body(k, <<>>) : k \in {"invalid_json", "null", "no_data_key", "empty_data", "no_cuaca"}}
    \cup {Body("cuaca", days) : days \in UNION {[1..n -> DayKinds] : n \in 0..MaxDays}}

StatusCodes == {200, 404, 500}

Responses ==
    {TransportError} \cup {HttpResponse(st, b) : st \in StatusCodes, b \in Bodies}

\* the calls of the weather functions: both are functions of their
\* arguments (and of the response the request receives), so a behaviour
\* starts with the call to make and ends with its result
WeatherInit ==
    /\ bot = Idle
    /\ cli = Idle
    /\ sess = Idle
    /\ art = Idle
    /\ ai = Idle
    /\ udb = Idle
    /\ has_table = FALSE
    /\ table = <<>>
    /\ imports = <<>>
    /\ selected_cities = EmptyDict
    /\ specific_only = TRUE
    /\ last = Idle
    /\ fetch = FetchIdle
    /\ \/ \E weather_data \in WeatherLists, target_hour \in TargetHours :
             wx = [op |-> "call", fn |-> "find_weather_at_time",
                   weather_data |-> weather_data, target_hour |-> target_hour]
       \/ \E resp \in Responses, target_hour \in TargetHours :
             wx = [op |-> "call", fn |-> "get_city_weather",
                   resp |-> resp, target_hour |-> target_hour]

\* find_weather_at_time(weather_data, target_hour, timezone_offset)
FindWeatherAtTime ==
    /\ wx.op = "call" /\ wx.fn = "find_weather_at_time"
    /\ wx' = [op |-> "find_weather_at_time", weather_data |-> wx.weather_data,
              target_hour |-> wx.target_hour,
              at |-> find_weather_at_time(wx.weather_data, wx.target_hour)]
    /\ UNCHANGED <<has_table, table, imports, selected_cities, specific_only, last, fetch, art, ai, udb, bot, cli, sess>>

\* get_city_weather(city_code, target_hour, timezone_offset), wx.resp being
\* the answer of the forecast API
GetCityWeather ==
    /\ wx.op = "call" /\ wx.fn = "get_city_weather"
    /\ wx' = [op |-> "get_city_weather", resp |-> wx.resp, target_hour |-> wx.target_hour,
              weather_data |-> get_weather_data(wx.resp),
              ret |-> get_city_weather(wx.resp, wx.target_hour)]
    /\ UNCHANGED <<has_table, table, imports, selected_cities, specific_only, last, fetch, art, ai, udb, bot, cli, sess>>

WeatherNext == FindWeatherAtTime \/ GetCityWeather

WeatherSpec == WeatherInit /\ [][WeatherNext]_vars

-----------------------------------------------------------------------------
(* Claims about the weather fetcher *)

\* the positions of the entries whose local_datetime parses
Parseable(weather_data) ==
    {i \in 1..Len(weather_data) : StrptimeHour(weather_data[i].local_datetime) # ValueError}

HourDiff(weather_data, i, target_hour) ==
    Abs(StrptimeHour(weather_data[i].local_datetime) - target_hour)

\* entry at is the first one, in list order, at the least distance from
\* target_hour among the entries at the positions in among
FirstNearest(weather_data, target_hour, among, at) ==
    /\ at \in among
    /\ \A j \in among :
          HourDiff(weather_data, at, target_hour) <= HourDiff(weather_data, j, target_hour)
    /\ \A j \in among :
          j < at => HourDiff(weather_data, j, target_hour)
                       > HourDiff(weather_data, at, target_hour)

\* C8 as stated: null on the empty list, and on every other list the first
\* entry at the least distance from the target hour.
C8_NearestOnEveryList ==
    wx.op = "find_weather_at_time"
    => IF wx.weather_data = <<>> THEN wx.at = 0
       ELSE /\ wx.at # 0
            /\ FirstNearest(wx.weather_data, wx.target_hour,
                            Parseable(wx.weather_data), wx.at)

\* C8 amended: null when no entry has a local datetime that parses (the
\* empty list included); otherwise the first entry at the least distance from
\* the target hour among the entries that parse, so an entry at the target
\* hour is returned whatever follows it.
C8_NearestAmongParseable ==
    wx.op = "find_weather_at_time"
    => IF Parseable(wx.weather_data) = {} THEN wx.at = 0
       ELSE /\ FirstNearest(wx.weather_data, wx.target_hour,
                            Parseable(wx.weather_data), wx.at)
            /\ (\E j \in Parseable(wx.weather_data) :
                   HourDiff(wx.weather_data, j, wx.target_hour) = 0)
               => HourDiff(wx.weather_data, wx.at, wx.target_hour) = 0

\* hours [3, 9, 15, 21] with target 10 yield the 09:00 entry
C8_Witness ==
    /\ wx.op = "find_weather_at_time"
    /\ wx.target_hour = 10
    /\ wx.weather_data = <<Entry(DateTimeOfHour(3)), Entry(DateTimeOfHour(9)),
                           Entry(DateTimeOfHour(15)), Entry(DateTimeOfHour(21))>>
    /\ wx.at = 2

\* C9: get_city_weather returns an observation whenever get_weather_data
\* returned entries: of the nearest entry when one is found, of the first
\* entry when none is; it returns null only when get_weather_data did.
C9_CityWeatherFallsBack ==
    wx.op = "get_city_weather"
    => /\ wx.weather_data # <<>>
          => LET at == find_weather_at_time(wx.weather_data, wx.target_hour)
             IN  /\ wx.ret # NoneRec
                 /\ at # 0 => wx.ret = Observation(wx.weather_data[at])
                 /\ at = 0 => wx.ret = Observation(wx.weather_data[1])
       /\ wx.ret = NoneRec <=> wx.weather_data = <<>>

\* entries were returned, none of them parses, and the observation is the
\* one of the first entry
C9_Witness ==
    /\ wx.op = "get_city_weather"
    /\ Len(wx.weather_data) >= 2
    /\ Parseable(wx.weather_data) = {}
    /\ wx.ret = Observation(wx.weather_data[1])

-----------------------------------------------------------------------------
(* fetch_all_cities_weather as a state machine *)

MaxConfigs == 2      \* cities of a city_configs dictionary

DEFAULT_TARGET_HOUR == 6

\* faulty variant: one replacement try more
max_replacement_tries_OneMore == 5 + 1

max_replacement_tries == 5

NoName == <<>>

\* the cities a configuration is made of: the WIB and WIT cities of the dump
ConfigCities ==
    LET by_timezone == CitiesByTimezone[TableAfter(<<"wilayah">>)]
        cities == by_timezone["WIB"] \o by_timezone["WIT"]
    IN  {cities[i] : i \in 1..Len(cities)}

\* city_configs in the order of its keys, which are distinct
CityConfigs ==
    {c \in UNION {[1..n -> ConfigCities] : n \in 0..MaxConfigs} :
        \A a, b \in 1..Len(c) : a # b => c[a].name # c[b].name}

\* what the forecast API answers to one request
FetchResponses == {GoodResponse, NoForecastResponse, TransportError}

\* results[name] = {**weather_data, 'timezone': ..., 'target_hour': ...}
ResultOf(weather_data, timezone) ==
    [datetime |-> weather_data.datetime,
     temperature |-> weather_data.temperature,
     weather |-> weather_data.weather,
     timezone |-> timezone,
     target_hour |-> DEFAULT_TARGET_HOUR]

\* a request of api.get_city_weather as the call makes it: the city asked
\* for, the zone it is asked under, and whether it is a replacement
Request(city, timezone, is_replacement) ==
    [name |-> city.name, code |-> city.code, zone |-> city.timezone,
     timezone |-> timezone, is_replacement |-> is_replacement]

\* faulty variant: a drawn name is never taken as attempted
AlreadyAttempted_Never(replacement_name, attempted_cities) == FALSE

\* "if replacement_name in attempted_cities"
AlreadyAttempted(replacement_name, attempted_cities) ==
    replacement_name \in attempted_cities

\* a call of fetch_all_cities_weather on a database that holds the dump, a
\* part of it, or no table at all
FetchInit ==
    /\ bot = Idle
    /\ cli = Idle
    /\ sess = Idle
    /\ art = Idle
    /\ ai = Idle
    /\ udb = Idle
    /\ \E imps \in {<<>>, <<"wilayah">>, <<"partial">>} :
          /\ imports = imps
          /\ table = TableAfter(imps)
          /\ has_table = (imps # <<>>)
    /\ selected_cities = EmptyDict
    /\ specific_only = TRUE
    /\ last = Idle
    /\ wx = Idle
    /\ \E city_configs \in CityConfigs, auto_replace_failed \in BOOLEAN :
          fetch = [pc |-> "fetch",
                   city_configs |-> city_configs,
                   auto_replace_failed |-> auto_replace_failed,
                   index |-> 1,
                   results |-> EmptyDict,
                   failed_cities |-> <<>>,
                   attempted_cities |-> {},
                   requests |-> <<>>,
                   failed_index |-> 0,
                   attempt |-> 0,
                   draws |-> <<>>,
                   replaced |-> <<>>,
                   raised |-> FALSE]

\* one iteration of "for city_name, config in city_configs.items()"
FetchCity ==
    /\ fetch.pc = "fetch"
    /\ fetch.index <= Len(fetch.city_configs)
    /\ \E resp \in FetchResponses :
          LET config == fetch.city_configs[fetch.index]
              weather_data == get_city_weather(resp, DEFAULT_TARGET_HOUR)
              asked == [fetch EXCEPT
                          !.requests = Append(@, Request(config, config.timezone, FALSE))]
          IN  fetch' =
                IF weather_data # NoneRec
                THEN [asked EXCEPT
                        !.results = DictSet(@, config.name,
                                            ResultOf(weather_data, config.timezone)),
                        !.index = @ + 1]
                ELSE [asked EXCEPT
                        !.failed_cities =
                            Append(@, [name |-> config.name,
                                       timezone |-> config.timezone,
                                       timezone_offset |-> config.timezone_offset]),
                        !.index = @ + 1]
    /\ UNCHANGED <<has_table, table, imports, selected_cities, specific_only, last, wx, art, ai, udb, bot, cli, sess>>

\* "if auto_replace_failed and failed_cities": open the selector and start
\* with the first failed city, or return the results
StartReplacement ==
    /\ fetch.pc = "fetch"
    /\ fetch.index > Len(fetch.city_configs)
    /\ fetch' =
         IF fetch.auto_replace_failed /\ fetch.failed_cities # <<>>
         THEN [fetch EXCEPT
                 !.pc = "replace",
                 !.attempted_cities =
                     {fetch.city_configs[i].name : i \in 1..Len(fetch.city_configs)},
                 !.failed_index = 1,
                 !.attempt = 0,
                 !.draws = [i \in 1..Len(fetch.failed_cities) |-> 0],
                 !.replaced = [i \in 1..Len(fetch.failed_cities) |-> NoName]]
         ELSE [fetch EXCEPT !.pc = "done"]
    /\ UNCHANGED <<has_table, table, imports, selected_cities, specific_only, last, wx, art, ai, udb, bot, cli, sess>>

\* break: the next failed city, or selector.close() and return
NextFailed(f) ==
    IF f.failed_index < Len(f.failed_cities)
    THEN [f EXCEPT !.failed_index = @ + 1, !.attempt = 0]
    ELSE [f EXCEPT !.pc = "done"]

\* continue, or the end of the loop body: the next value of range(max_replacement_tries)
NextAttempt(f) ==
    IF f.attempt + 1 < max_replacement_tries
    THEN [f EXCEPT !.attempt = @ + 1]
    ELSE NextFailed(f)

\* one iteration of "for attempt in range(max_replacement_tries)": a draw
\* from the zone of the failed city and, for a name not yet attempted, its
\* request; an exception of the store ends the replacement
ReplacementTry ==
    /\ fetch.pc = "replace"
    /\ LET i == fetch.failed_index
           failed_city == fetch.failed_cities[i]
           drawn == [fetch EXCEPT !.draws[i] = @ + 1]
       IN  IF ~has_table
           THEN fetch' = [drawn EXCEPT !.pc = "done", !.raised = TRUE]
           ELSE \E replacement_cities \in
                      get_random_cities(CitiesByTimezone[table], 1, failed_city.timezone) :
                  IF replacement_cities = <<>>
                  THEN fetch' = NextFailed(drawn)
                  ELSE LET replacement == replacement_cities[1]
                       IN  IF AlreadyAttempted(replacement.name, fetch.attempted_cities)
                           THEN fetch' = NextAttempt(drawn)
                           ELSE \E resp \in FetchResponses :
                                  LET tried ==
                                        [drawn EXCEPT
                                           !.attempted_cities = @ \cup {replacement.name},
                                           !.requests =
                                               Append(@, Request(replacement,
                                                                 failed_city.timezone, TRUE))]
                                      weather_data ==
                                        get_city_weather(resp, DEFAULT_TARGET_HOUR)
                                  IN  fetch' =
                                        IF weather_data # NoneRec
                                        THEN NextFailed(
                                               [tried EXCEPT
                                                  !.results =
                                                      DictSet(@, replacement.name,
                                                              ResultOf(weather_data,
                                                                       failed_city.timezone)),
                                                  !.replaced[i] = replacement.name])
                                        ELSE NextAttempt(tried)
    /\ UNCHANGED <<has_table, table, imports, selected_cities, specific_only, last, wx, art, ai, udb, bot, cli, sess>>

FetchNext == FetchCity \/ StartReplacement \/ ReplacementTry

FetchSpec == FetchInit /\ [][FetchNext]_vars

\* the call runs on its own thread of control: a request ends within its
\* timeout and a sleep ends, so a step that can be taken is taken
FetchFairSpec == FetchSpec /\ WF_vars(FetchNext)

-----------------------------------------------------------------------------
(* Claims about fetch_all_cities_weather *)

\* the failed cities no replacement was found for
Unreplaced == {i \in 1..Len(fetch.replaced) : fetch.replaced[i] = NoName}

\* C10: with auto_replace_failed the call returns; no failed city gets more
\* than 5 replacement draws; a failed city left without a replacement has no
\* entry in the returned map, which holds one entry for every other slot.
C10_FetchTerminates ==
    /\ [](fetch.auto_replace_failed => <>(fetch.pc = "done"))
    /\ [](\A i \in 1..Len(fetch.draws) : fetch.draws[i] <= 5)
    /\ [](fetch.pc = "done" /\ fetch.auto_replace_failed
          => /\ \A i \in Unreplaced :
                   fetch.failed_cities[i].name \notin DOMAIN fetch.results
             /\ Cardinality(DOMAIN fetch.results)
                   = Len(fetch.city_configs) - Cardinality(Unreplaced))

\* a failed city whose five draws all gave a name already attempted: the
\* call has returned a map without an entry for it
C10_Witness ==
    /\ fetch.pc = "done"
    /\ fetch.auto_replace_failed
    /\ ~fetch.raised
    /\ \E i \in 1..Len(fetch.failed_cities) :
          /\ fetch.draws[i] = 5
          /\ fetch.replaced[i] = NoName
          /\ fetch.attempted_cities
                = {fetch.city_configs[k].name : k \in 1..Len(fetch.city_configs)}
          /\ fetch.failed_cities[i].name \notin DOMAIN fetch.results


\* C11: every replacement whose forecast is requested is a city of the
\* failed city's zone whose name was not requested before in the call; no
\* name is requested twice and no failed city's name is a key of the result.
C11_ReplacementsAreNew ==
    /\ \A i \in 1..Len(fetch.requests) :
          fetch.requests[i].is_replacement
          => /\ fetch.requests[i].zone = fetch.requests[i].timezone
             /\ \A k \in 1..Len(fetch.city_configs) :
                   fetch.city_configs[k].name # fetch.requests[i].name
             /\ \A j \in 1..(i - 1) : fetch.requests[j].name # fetch.requests[i].name
    /\ \A i, j \in 1..Len(fetch.requests) :
          i # j => fetch.requests[i].name # fetch.requests[j].name
    /\ \A i \in 1..Len(fetch.failed_cities) :
          fetch.failed_cities[i].name \notin DOMAIN fetch.results

\* a failed city was replaced by a new city of its zone after a draw of an
\* attempted name was skipped
C11_Witness ==
    /\ fetch.pc = "done"
    /\ \E i \in 1..Len(fetch.draws), r \in 1..Len(fetch.requests) :
          /\ fetch.draws[i] >= 2
          /\ fetch.requests[r].is_replacement
          /\ fetch.replaced[i] = fetch.requests[r].name
          /\ fetch.requests[r].name \in DOMAIN fetch.results
          /\ fetch.requests[r].zone = fetch.failed_cities[i].timezone

-----------------------------------------------------------------------------
(* Template generator: template_generator.py *)

\* str.lower()
Lower(s) == [i \in 1..Len(s) |-> ToLower(s[i])]

\* Python's "q in s" on strings
In(q, s) == \E i \in 1..(Len(s) + 1) : StartsWithAt(s, q, i)

\* str(n) for n >= 0
RECURSIVE IntStr(_)
IntStr(n) ==
    IF n < 10 THEN <<DigitChars[n + 1]>>
    ELSE IntStr(n \div 10) \o <<DigitChars[(n % 10) + 1]>>

\* int(round(x)) for x >= 0 given in tenths: halves round to the even integer
RoundTenths(x) ==
    LET q == x \div 10
        r == x % 10
    IN  IF r < 5 THEN q
        ELSE IF r > 5 THEN q + 1
        ELSE IF q % 2 = 0 THEN q ELSE q + 1

\* a text is a sequence of parts: the literal text of a template (lit) or
\* an interpolated value (val)
Lit(s) == [lit |-> s, val |-> <<>>]
Val(v) == [lit |-> "", val |-> v]

DayNames == <<"Senin", "Selasa", "Rabu", "Kamis", "Jumat", "Sabtu", "Minggu">>

MonthNames ==
    <<"Januari", "Februari", "Maret", "April", "Mei", "Juni", "Juli", "Agustus",
      "September", "Oktober", "November", "Desember">>

IsLeap(y) == (y % 4 = 0 /\ y % 100 # 0) \/ y % 400 = 0

DaysInMonth(y, m) ==
    IF m = 2 THEN (IF IsLeap(y) THEN 29 ELSE 28)
    ELSE IF m \in {4, 6, 9, 11} THEN 30 ELSE 31

RECURSIVE DaysBeforeMonth(_, _)
DaysBeforeMonth(y, m) ==
    IF m = 1 THEN 0 ELSE DaysBeforeMonth(y, m - 1) + DaysInMonth(y, m - 1)

\* datetime.weekday(): 0 is Monday
Weekday(y, m, d) ==
    LET before == y - 1
        ordinal == 365 * before + (before \div 4) - (before \div 100) + (before \div 400)
                   + DaysBeforeMonth(y, m) + d
    IN  (ordinal + 6) % 7

\* the date fields of a string strptime accepts with '%Y-%m-%d %H:%M:%S'
YearOf(s) == 100 * TwoDigits(s, 1) + TwoDigits(s, 3)
MonthOf(s) == TwoDigits(s, 6)
DayOf(s) == TwoDigits(s, 9)

\* strptime with '%Y-%m-%d %H:%M:%S' succeeds
Strptime(s) ==
    /\ StrptimeHour(s) # ValueError
    /\ YearOf(s) >= 1
    /\ DayOf(s) <= DaysInMonth(YearOf(s), MonthOf(s))

\* get_day_name(date_str)
get_day_name(date_str) ==
    IF Strptime(date_str)
    THEN DayNames[Weekday(YearOf(date_str), MonthOf(date_str), DayOf(date_str)) + 1]
    ELSE "Senin"

\* f"{dt.day} {months[dt.month]} {dt.year}"
FormattedDate(s) ==
    <<Val(IntStr(DayOf(s))), Lit(" "), Lit(MonthNames[MonthOf(s)]), Lit(" "),
      Val(IntStr(YearOf(s)))>>

\* get_formatted_date(date_str)
get_formatted_date(date_str) ==
    IF Strptime(date_str) THEN FormattedDate(date_str) ELSE <<Lit("1 Januari 2026")>>

\* format_time(hour): f"{hour:02d}.00"
format_time(hour) ==
    (IF hour < 10 THEN <<"0">> ELSE <<>>) \o IntStr(hour) \o <<".", "0", "0">>

\* list(weather_data.keys())
Cities(weather_data) == [i \in 1..Len(weather_data) |-> weather_data[i].name]

\* the result of a call that raised
Raised(error) == [raised |-> error, text |-> <<>>]
Returned(text) == [raised |-> "", text |-> text]

\* the f-string of generate_article filled for four cities, each given as
\* its key and its observation
ArticleTemplate(c1, c2, c3, c4) ==
    <<Lit("Badan Meteorologi, Klimatologi dan Geofisika (BMKG) memprakirakan cuaca di Kota "),
      Val(c1.name), Lit(" "), Val(Lower(c1.data.weather)), Lit(" pada hari "),
      Lit(get_day_name(c1.data.datetime)), Lit(", ")>>
    \o get_formatted_date(c1.data.datetime)
    \o <<Lit(". Kondisi ini berbeda dengan beberapa daerah lainnya di Indonesia yang mengalami cuaca berbeda-beda."),
         Lit("\n\n"),
         Lit("Berdasarkan pantauan di laman resmi BMKG.go.id pada pukul "),
         Val(format_time(c1.data.target_hour)), Lit(" "), Lit(c1.data.timezone),
         Lit(", suhu udara di Kota "), Val(c1.name), Lit(" berkisar "),
         Val(IntStr(RoundTenths(c1.data.temperature))),
         Lit(" derajat Celcius. Sementara, tingkat kelembapan udara berada pada "),
         Val(IntStr(RoundTenths(c1.data.humidity))), Lit(" persen."),
         Lit("\n\n"),
         Lit("Berbeda dengan kota "), Val(c1.name), Lit(", "), Val(c2.name),
         Lit(" pada pukul "), Val(format_time(c2.data.target_hour)), Lit(" "),
         Lit(c2.data.timezone), Lit(" diprakirakan "), Val(Lower(c2.data.weather)),
         Lit(" dengan suhu udara berkisar "),
         Val(IntStr(RoundTenths(c2.data.temperature))),
         Lit(" derajat Celcius. Sementara, untuk tingkat kelembapan udara berada pada angka "),
         Val(IntStr(RoundTenths(c2.data.humidity))), Lit(" persen."),
         Lit("\n\n"),
         Lit("Kota "), Val(c3.name), Lit(" diprakirakan terjadi "),
         Val(Lower(c3.data.weather)), Lit(" pada pukul "),
         Val(format_time(c3.data.target_hour)), Lit(" "), Lit(c3.data.timezone),
         Lit(". Suhu udara kota ini berkisar "),
         Val(IntStr(RoundTenths(c3.data.temperature))),
         Lit(" derajat Celcius. Tingkat kelembapan udaranya berada pada angka "),
         Val(IntStr(RoundTenths(c3.data.humidity))), Lit(" persen."),
         Lit("\n\n"),
         Lit("Berbeda dengan kota-kota yang telah dilaporkan, pada pukul "),
         Val(format_time(c4.data.target_hour)), Lit(" "), Lit(c4.data.timezone),
         Lit(" di kota "), Val(c4.name), Lit(" diprakirakan "),
         Val(Lower(c4.data.weather)),
         Lit(". Suhu udara di kota tersebut berkisar "),
         Val(IntStr(RoundTenths(c4.data.temperature))),
         Lit(" derajat Celcius, dengan tingkat kelembapan udara berada pada angka antara "),
         Val(IntStr(RoundTenths(c4.data.humidity))), Lit(" persen."),
         Lit("\n\n"),
         Lit("BMKG juga mengingatkan bahwa kondisi cuaca dapat berubah sewaktu-waktu. Masyarakat diimbau untuk selalu memantau informasi terkini dari sumber resmi dan mempersiapkan diri sesuai dengan kondisi cuaca di lokasi masing-masing. (*)")>>

\* faulty variant: the last paragraph is about the third city again
ArticleOfFirstFour_ThirdTwice(weather_data) ==
    ArticleTemplate(weather_data[1], weather_data[2], weather_data[3], weather_data[3])

\* cities[0] .. cities[3] and their observations, filled into the template
ArticleOfFirstFour(weather_data) ==
    ArticleTemplate(weather_data[1], weather_data[2], weather_data[3], weather_data[4])

\* faulty variant: four cities are refused as well
generate_article_MoreThanFour(weather_data) ==
    IF Len(weather_data) <= 4 THEN Raised("ValueError")
    ELSE Returned(ArticleOfFirstFour(weather_data))

\* generate_article(weather_data), weather_data in the order of its keys
generate_article(weather_data) ==
    IF Len(weather_data) < 4 THEN Raised("ValueError")
    ELSE Returned(ArticleOfFirstFour(weather_data))

petir == <<"p","e","t","i","r">>
lebat == <<"l","e","b","a","t">>
hujan == <<"h","u","j","a","n">>

IsExtreme(entry) ==
    In(petir, Lower(entry.data.weather)) \/ In(lebat, Lower(entry.data.weather))

IsRain(entry) == In(hujan, Lower(entry.data.weather))

\* faulty variant: rain is looked for before thunder and heavy rain
priority_cities_RainFirst(weather_data) ==
    IF SelectSeq(weather_data, IsRain) # <<>> THEN SelectSeq(weather_data, IsRain)
    ELSE IF SelectSeq(weather_data, IsExtreme) # <<>> THEN SelectSeq(weather_data, IsExtreme)
    ELSE <<weather_data[1]>>

\* priority_cities of generate_title: the thunder and heavy-rain cities, or
\* else the rain cities, or else the first city
priority_cities(weather_data) ==
    IF SelectSeq(weather_data, IsExtreme) # <<>> THEN SelectSeq(weather_data, IsExtreme)
    ELSE IF SelectSeq(weather_data, IsRain) # <<>> THEN SelectSeq(weather_data, IsRain)
    ELSE <<weather_data[1]>>

\* other_cities of generate_title
other_cities(weather_data, main_city) ==
    LET IsOther(entry) == entry.name # main_city
    IN  SelectSeq(weather_data, IsOther)

\* faulty variant: the two weather texts are compared as they are
SameWeather_CaseSensitive(city2_weather, city3_weather) == city2_weather = city3_weather

\* "if city2_weather.lower() == city3_weather.lower()"
SameWeather(city2_weather, city3_weather) == Lower(city2_weather) = Lower(city3_weather)

\* dateutil's parser.parse succeeds; on the strings an observation carries
\* here (a local_datetime of the API, or '' for a missing one) it does when
\* strptime does
ParserParses(s) == Strptime(s)

\* generate_title(weather_data)
generate_title(weather_data) ==
    IF weather_data = <<>> THEN Raised("IndexError")
    ELSE IF ~ParserParses(weather_data[1].data.datetime) THEN Raised("ParserError")
    ELSE
      LET date_str == FormattedDate(weather_data[1].data.datetime)
          main == priority_cities(weather_data)[1]
          others == other_cities(weather_data, main.name)
          head == <<Lit("BMKG: Cuaca Kota "), Val(main.name), Lit(" ")>> \o date_str
                  \o <<Lit(" Diprakirakan "), Val(main.data.weather)>>
      IN  Returned(
            IF Len(others) >= 2 /\ SameWeather(others[1].data.weather, others[2].data.weather)
            THEN head \o <<Lit(", Sejumlah Kota Lainnya "), Val(others[1].data.weather)>>
            ELSE IF Len(others) >= 1
            THEN head \o <<Lit(", "), Val(others[1].name), Lit(" "),
                           Val(others[1].data.weather)>>
            ELSE head)

MaxCities == 5       \* entries of a weather_data dictionary

\* keys of weather_data, in the order they are inserted
TemplateNames ==
    <<<<"D","e","p","o","k">>, <<"P","a","l","u">>, <<"T","u","a","l">>, <<"B","a","t","u">>, <<"B","i","m","a">>, <<"A","m","b","o","n">>, <<"M","e","d","a","n">>>>

\* weather_desc texts: dry, rain in two spellings, thunder, heavy rain
WeatherTexts ==
    {<<"C","e","r","a","h">>, <<"H","u","j","a","n"," ","R","i","n","g","a","n">>, <<"h","u","j","a","n"," ","r","i","n","g","a","n">>, <<"H","u","j","a","n"," ","P","e","t","i","r">>, <<"H","u","j","a","n"," ","L","e","b","a","t">>}

\* the texts of the cities after the fourth
LateWeatherTexts == {<<"C","e","r","a","h">>, <<"H","u","j","a","n"," ","P","e","t","i","r">>}

\* the observation of the i-th city as fetch_all_cities_weather stores it:
\* temperature and humidity in tenths
TemplateEntry(i, weather, datetime) ==
    [name |-> TemplateNames[i],
     data |-> [datetime |-> datetime,
               weather |-> weather,
               temperature |-> 260 + 5 * i,
               humidity |-> 795 + 5 * i,
               timezone |-> TimezoneNames[(i % 3) + 1],
               target_hour |-> DEFAULT_TARGET_HOUR]]

\* local_datetime of the entries: 2025-01-01 06:00:00, or '' for a missing one
TemplateDatetimes == {DateTimeOfHour(DEFAULT_TARGET_HOUR), <<>>}

TemplateInputs ==
    {[i \in 1..n |-> TemplateEntry(i, w[i], datetime)] :
        n \in 0..0, w \in {<<>>}, datetime \in TemplateDatetimes}
    \cup UNION {{[i \in 1..n |-> TemplateEntry(i, w[i], datetime)] :
                    w \in {f \in [1..n -> WeatherTexts] :
                              \A i \in 5..n : f[i] \in LateWeatherTexts},
                    datetime \in TemplateDatetimes} :
                n \in 1..MaxCities}

\* the calls of the template generator: both are functions of weather_data
TemplateInit ==
    /\ bot = Idle
    /\ cli = Idle
    /\ sess = Idle
    /\ has_table = FALSE
    /\ table = <<>>
    /\ imports = <<>>
    /\ selected_cities = EmptyDict
    /\ specific_only = TRUE
    /\ last = Idle
    /\ wx = Idle
    /\ fetch = FetchIdle
    /\ ai = Idle
    /\ udb = Idle
    /\ \E fn \in {"generate_article", "generate_title"}, weather_data \in TemplateInputs :
          art = [op |-> "call", fn |-> fn, weather_data |-> weather_data]

\* generate_article(weather_data)
GenerateArticle ==
    /\ art.op = "call" /\ art.fn = "generate_article"
    /\ art' = [op |-> "generate_article", weather_data |-> art.weather_data,
               ret |-> generate_article(art.weather_data)]
    /\ UNCHANGED <<has_table, table, imports, selected_cities, specific_only, last, wx,
                   fetch, ai, udb, bot, cli, sess>>

\* generate_title(weather_data)
GenerateTitle ==
    /\ art.op = "call" /\ art.fn = "generate_title"
    /\ art' = [op |-> "generate_title", weather_data |-> art.weather_data,
               ret |-> generate_title(art.weather_data)]
    /\ UNCHANGED <<has_table, table, imports, selected_cities, specific_only, last, wx,
                   fetch, ai, udb, bot, cli, sess>>

TemplateNext == GenerateArticle \/ GenerateTitle

TemplateSpec == TemplateInit /\ [][TemplateNext]_vars

-----------------------------------------------------------------------------
(* Claims about the template generator *)

\* the number of places of a text at which the value v is interpolated
Occurrences(text, v) == Cardinality({i \in 1..Len(text) : text[i].val = v})

\* C12 as stated: the article of 4 observations holds each of the 4 city
\* names exactly once.
C12_EachNameOnce ==
    (art.op = "generate_article" /\ Len(art.weather_data) = 4)
    => /\ art.ret.raised = ""
       /\ \A i \in 1..4 : Occurrences(art.ret.text, art.weather_data[i].name) = 1

\* C12 amended: the article of 4 (or more) observations holds the name of
\* the first city at three places, the names of the second, third and fourth
\* city at one place each, and the name of no further city.
C12_FirstNameThrice ==
    (art.op = "generate_article" /\ Len(art.weather_data) >= 4)
    => /\ art.ret.raised = ""
       /\ Occurrences(art.ret.text, art.weather_data[1].name) = 3
       /\ \A i \in 2..4 : Occurrences(art.ret.text, art.weather_data[i].name) = 1
       /\ \A i \in 5..Len(art.weather_data) :
             Occurrences(art.ret.text, art.weather_data[i].name) = 0

\* an article was written for exactly four observations
C12_Witness ==
    /\ art.op = "generate_article"
    /\ Len(art.weather_data) = 4
    /\ art.ret.raised = ""
    /\ Occurrences(art.ret.text, art.weather_data[4].name) = 1

\* C13: generate_article raises ValueError and returns no text for 0, 1, 2
\* and 3 entries, and does not raise it for 4 entries or more.
C13_FewerThanFourRaises ==
    art.op = "generate_article"
    => /\ Len(art.weather_data) < 4
          => art.ret.raised = "ValueError" /\ art.ret.text = <<>>
       /\ Len(art.weather_data) >= 4
          => art.ret.raised # "ValueError" /\ art.ret.text # <<>>

\* three observations were refused
C13_Witness ==
    /\ art.op = "generate_article"
    /\ Len(art.weather_data) = 3
    /\ art.ret.raised = "ValueError"

\* the positions of the cities whose weather text, lower-cased, holds word
Mentioning(weather_data, word) ==
    {i \in 1..Len(weather_data) : In(word, Lower(weather_data[i].data.weather))}

First(positions) == CHOOSE i \in positions : \A j \in positions : i <= j

\* the city the title names first, after "BMKG: Cuaca Kota "
TitleMainCity(text) == text[2].val

\* C14: the main city of the title is the first city whose weather mentions
\* 'petir' or 'lebat'; if there is none, the first whose weather mentions
\* 'hujan'; if there is none either, the first city.
C14_MainCityByPriority ==
    (art.op = "generate_title" /\ art.ret.raised = "")
    => LET weather_data == art.weather_data
           extreme == Mentioning(weather_data, petir) \cup Mentioning(weather_data, lebat)
           rain == Mentioning(weather_data, hujan)
           main == IF extreme # {} THEN First(extreme)
                   ELSE IF rain # {} THEN First(rain)
                   ELSE 1
       IN  /\ TitleMainCity(art.ret.text) = weather_data[main].name
           /\ art.ret.text[10].val = weather_data[main].data.weather

\* a city with rain comes before a city with thunder, and the title is
\* about the city with thunder
C14_Witness ==
    /\ art.op = "generate_title"
    /\ art.ret.raised = ""
    /\ Len(art.weather_data) >= 3
    /\ art.weather_data[1].data.weather = <<"C","e","r","a","h">>
    /\ art.weather_data[2].data.weather = <<"H","u","j","a","n"," ","R","i","n","g","a","n">>
    /\ art.weather_data[3].data.weather = <<"H","u","j","a","n"," ","P","e","t","i","r">>
    /\ TitleMainCity(art.ret.text) = art.weather_data[3].name

\* the positions of the cities other than the main city of the title
NonMain(weather_data, text) ==
    {i \in 1..Len(weather_data) : weather_data[i].name # TitleMainCity(text)}

-----------------------------------------------------------------------------
(* AI enhancer: ai_generator.py *)

\* str.strip(): leading and trailing whitespace removed
IsSpace(c) == c \in {" ", "\n", "\t"}

RECURSIVE LStrip(_)
LStrip(s) == IF Len(s) > 0 /\ IsSpace(s[1]) THEN LStrip(Tail(s)) ELSE s

RECURSIVE RStrip(_)
RStrip(s) ==
    IF Len(s) > 0 /\ IsSpace(s[Len(s)]) THEN RStrip(SubSeq(s, 1, Len(s) - 1)) ELSE s

Strip(s) == RStrip(LStrip(s))

\* str.capitalize(): first character upper case, the rest lower case
Capitalize(s) ==
    [i \in 1..Len(s) |-> IF i = 1 THEN ToUpper(s[i]) ELSE ToLower(s[i])]

\* self.models
models == <<"gemini-2.5-flash-lite", "gemini-3-flash", "gemma-3-1b", "gemini-2.5-flash-tts">>

\* generate_new_keys(num_keys=5) of the automatic recovery
num_keys == 5

\* the big cities generate_title looks for in a title
common_cities ==
    <<<<"j","a","k","a","r","t","a">>,
      <<"s","u","r","a","b","a","y","a">>,
      <<"b","a","n","d","u","n","g">>,
      <<"m","e","d","a","n">>,
      <<"s","e","m","a","r","a","n","g">>,
      <<"m","a","k","a","s","s","a","r">>,
      <<"p","a","l","e","m","b","a","n","g">>,
      <<"t","a","n","g","e","r","a","n","g">>,
      <<"d","e","p","o","k">>,
      <<"b","o","g","o","r">>,
      <<"y","o","g","y","a","k","a","r","t","a">>,
      <<"m","a","l","a","n","g">>,
      <<"s","o","l","o">>,
      <<"b","a","t","a","m">>,
      <<"p","e","k","a","n","b","a","r","u">>>>

\* the values a call of the enhancer hands back: None, a text, or an
\* exception that leaves the call
AiNone == [raised |-> "", none |-> TRUE, text |-> <<>>]
AiText(text) == [raised |-> "", none |-> FALSE, text |-> text]
AiRaised(error) == [raised |-> error, none |-> TRUE, text |-> <<>>]

\* valid_cities = set(cities): the keys of weather_data
valid_cities(weather_data) == {weather_data[i].name : i \in 1..Len(weather_data)}

\* city in title_lower and city.capitalize() not in valid_cities
InvalidCity(city, title_lower, valid) ==
    In(city, title_lower) /\ Capitalize(city) \notin valid

\* faulty variant: the title is searched as written, not in lower case
contains_invalid_city_CaseSensitive(title, valid) ==
    \E i \in 1..Len(common_cities) :
        /\ In(Capitalize(common_cities[i]), title)
        /\ Capitalize(common_cities[i]) \notin valid

\* the validation loop of generate_title over common_cities
contains_invalid_city(title, valid) ==
    \E i \in 1..Len(common_cities) : InvalidCity(common_cities[i], Lower(title), valid)

\* generate_title after _generate_content has handed back content: a title
\* that names a listed city outside the input is replaced by None
ValidatedTitle(content, weather_data) ==
    IF content.raised # "" \/ content.none THEN content
    ELSE IF contains_invalid_city(content.text, valid_cities(weather_data)) THEN AiNone
    ELSE content

\* the responses of requests.post to a generation request: a status with a
\* body, or an exception of the requests library
HttpStatus(code) == [exception |-> "", status |-> code, body |-> "", text |-> <<>>]
HttpText(text) == [exception |-> "", status |-> 200, body |-> "text", text |-> text]
HttpBody(body) == [exception |-> "", status |-> 200, body |-> body, text |-> <<>>]
HttpException(name) == [exception |-> name, status |-> 0, body |-> "", text |-> <<>>]

\* faulty variant: a model that is not found ends the models of the key
Disposition_NotFoundNextKey(response) ==
    IF response.exception = "Timeout" THEN "next_model"
    ELSE IF response.exception = "ConnectionError" THEN "next_key"
    ELSE IF response.exception # "" THEN "raise"
    ELSE IF response.status = 200
         THEN IF response.body = "text" /\ Strip(response.text) # <<>> THEN "return"
              ELSE IF response.body = "null_text" THEN "raise"
              ELSE "next_model"
    ELSE IF response.status \in {429, 401, 403, 404} THEN "next_key"
    ELSE "next_model"

\* what the loop body of _generate_content does with a response:
\*   "return"      the stripped text is returned
\*   "next_model"  the next model of the same key is tried
\*   "next_key"    the remaining models of the key are skipped
\*   "raise"       an exception no except clause names leaves the call
Disposition(response) ==
    IF response.exception = "Timeout" THEN "next_model"
    ELSE IF response.exception = "ConnectionError" THEN "next_key"
    ELSE IF response.exception # "" THEN "raise"
    ELSE IF response.status = 200
         THEN IF response.body = "text"
                 THEN IF Strip(response.text) # <<>> THEN "return" ELSE "next_model"
              ELSE IF response.body \in {"not_json", "no_parts"} THEN "next_model"
              ELSE IF response.body = "null_text" THEN "raise"
              ELSE "next_model"
    ELSE IF response.status = 429 THEN "next_key"
    ELSE IF response.status \in {401, 403} THEN "next_key"
    ELSE IF response.status = 404 THEN "next_model"
    ELSE "next_model"

\* the exception a "raise" response leaves the call with
ExceptionOf(response) ==
    IF response.exception # "" THEN response.exception ELSE "AttributeError"


\* the most api keys an enhancer holds
MaxKeys == 3

\* texts of a generation response: titles naming Medan, Jakarta in capitals
\* between whitespace, Jakarta Pusat and Palu, and a blank text
TitleMedan == <<"C","u","a","c","a"," ","M","e","d","a","n"," ","C","e","r","a","h">>
TitleJAKARTA == <<" ","C","u","a","c","a"," ","J","A","K","A","R","T","A"," ","H","u","j","a","n","\n">>
TitleJakartaPusat == <<"C","u","a","c","a"," ","J","a","k","a","r","t","a"," ","P","u","s","a","t"," ","H","u","j","a","n">>
TitlePalu == <<"C","u","a","c","a"," ","P","a","l","u"," ","C","e","r","a","h">>
BlankText == <<" ","\n">>

ResponseTexts == {TitleMedan, TitleJAKARTA, TitleJakartaPusat, TitlePalu, BlankText}

\* the responses to a generation request
GenerationResponses ==
    {HttpText(text) : text \in ResponseTexts}
    \cup {HttpBody(body) : body \in {"no_candidates", "not_json", "null_text"}}
    \cup {HttpStatus(code) : code \in {429, 401, 403, 404, 500}}
    \cup {HttpException(name) : name \in {"Timeout", "ConnectionError", "TooManyRedirects"}}

\* the responses to a test request: rate limited, another status, no answer
TestResponses == {HttpStatus(429), HttpStatus(200), HttpException("Timeout")}

\* weather_data of a call: the observations by city name
AiEntry(name) ==
    [name |-> name,
     data |-> [datetime |-> <<>>, weather |-> <<"C","e","r","a","h">>, temperature |-> 300]]

AiWeatherInputs ==
    {<<>>,
     <<AiEntry(<<"M","e","d","a","n">>), AiEntry(<<"D","e","p","o","k">>)>>,
     <<AiEntry(<<"J","a","k","a","r","t","a">>), AiEntry(<<"M","e","d","a","n">>)>>,
     <<AiEntry(<<"J","a","k","a","r","t","a"," ","P","u","s","a","t">>), AiEntry(<<"P","a","l","u">>)>>}

\* the base article the caller built from weather_data: none from an empty one
ArticleOf(weather_data) ==
    IF Len(weather_data) = 0 THEN <<>> ELSE <<"a","r","t","i","k","e","l">>

NoAttempt == [api_idx |-> 0, model_idx |-> 0, response |-> HttpStatus(0)]

\* GeminiAIGenerator(api_keys): keys counts the api keys, generator tells
\* whether an AutoKeyGenerator was built and is available
NewEnhancer(keys, generator) ==
    [op |-> "__init__", pc |-> "idle",
     keys |-> keys, call_keys |-> keys, ai_available |-> TRUE, last_error |-> None,
     auto_recovery_attempted |-> FALSE, generator |-> generator,
     api_idx |-> 0, model_idx |-> 0, rate_limited_count |-> 0, depth |-> 0,
     attempts |-> 0, tests |-> 0, before |-> TRUE,
     attempt |-> NoAttempt, weather_data |-> <<>>, base_article |-> <<>>,
     ret |-> AiNone, article |-> <<>>, ok |-> FALSE]

\* a call begins: the counters of the call are reset
Begin(a, op, weather_data, base_article) ==
    [a EXCEPT !.op = op, !.pc = "idle", !.api_idx = 0, !.model_idx = 0,
              !.rate_limited_count = 0, !.depth = 0, !.attempts = 0, !.tests = 0,
              !.call_keys = a.keys, !.before = a.ai_available, !.attempt = NoAttempt,
              !.weather_data = weather_data, !.base_article = base_article,
              !.ret = AiNone, !.article = <<>>, !.ok = FALSE]

\* faulty variant: the except clause of enhance_article hands the exception on
enhance_article_Reraise(a, title) ==
    [a EXCEPT !.pc = "idle", !.api_idx = 0, !.model_idx = 0,
              !.ai_available = IF title.raised # "" THEN FALSE ELSE a.ai_available,
              !.article = a.base_article, !.ret = title]

\* enhance_article once generate_title has handed back title or raised
enhance_article(a, title) ==
    [a EXCEPT !.pc = "idle", !.api_idx = 0, !.model_idx = 0,
              !.ai_available = IF title.raised # "" THEN FALSE ELSE a.ai_available,
              !.article = a.base_article,
              !.ret = IF title.raised # "" THEN AiNone ELSE title]

\* _generate_content returns content (or raises) and the call of the
\* enhancer that made it runs to its end
Return(a, content) ==
    IF a.op = "enhance_article"
       THEN enhance_article(a, ValidatedTitle(content, a.weather_data))
    ELSE [a EXCEPT !.pc = "idle", !.api_idx = 0, !.model_idx = 0,
                   !.ret = IF a.op = "generate_title"
                              THEN ValidatedTitle(content, a.weather_data)
                           ELSE content]

\* the end of _generate_content: the enhancer is marked unavailable
MarkUnavailable(a) ==
    Return([a EXCEPT !.ai_available = FALSE, !.last_error = "Semua API key tidak tersedia"],
           AiNone)

\* the position after the attempt (api_idx, model_idx) with this response
NextPosition(a, response) ==
    LET disposition == Disposition(response)
    IN  IF disposition = "next_model" /\ a.model_idx < Len(models)
           THEN [api_idx |-> a.api_idx, model_idx |-> a.model_idx + 1]
        ELSE [api_idx |-> a.api_idx + 1, model_idx |-> 1]

AiInit ==
    /\ bot = Idle
    /\ cli = Idle
    /\ sess = Idle
    /\ has_table = FALSE
    /\ table = <<>>
    /\ imports = <<>>
    /\ selected_cities = EmptyDict
    /\ specific_only = TRUE
    /\ last = Idle
    /\ wx = Idle
    /\ fetch = FetchIdle
    /\ art = Idle
    /\ udb = Idle
    /\ \E keys \in 1..MaxKeys, generator \in BOOLEAN :
          ai = NewEnhancer(keys, generator)

\* generate_title(weather_data) up to its call of _generate_content
AiGenerateTitle ==
    /\ ai.pc = "idle"
    /\ \E weather_data \in AiWeatherInputs :
          LET a == Begin(ai, "generate_title", weather_data, <<>>)
          IN  ai' = IF ~ai.ai_available THEN [a EXCEPT !.ret = AiNone]
                    ELSE IF Len(weather_data) = 0
                            THEN [a EXCEPT !.ret = AiRaised("IndexError")]
                    ELSE [a EXCEPT !.pc = "loop", !.api_idx = 1, !.model_idx = 1]
    /\ UNCHANGED <<has_table, table, imports, selected_cities, specific_only, last, wx,
                   fetch, art, udb, bot, cli, sess>>

\* _generate_content(prompt) up to its first request
GenerateContent ==
    /\ ai.pc = "idle"
    /\ LET a == Begin(ai, "_generate_content", <<>>, <<>>)
       IN  ai' = IF ~ai.ai_available THEN [a EXCEPT !.ret = AiNone]
                 ELSE [a EXCEPT !.pc = "loop", !.api_idx = 1, !.model_idx = 1]
    /\ UNCHANGED <<has_table, table, imports, selected_cities, specific_only, last, wx,
                   fetch, art, udb, bot, cli, sess>>

\* enhance_article(base_article, weather_data) up to the call of
\* _generate_content inside generate_title
EnhanceArticle ==
    /\ ai.pc = "idle"
    /\ \E weather_data \in AiWeatherInputs :
          LET base_article == ArticleOf(weather_data)
              a == Begin(ai, "enhance_article", weather_data, base_article)
          IN  ai' = IF ~ai.ai_available THEN enhance_article(a, AiNone)
                    ELSE IF Len(weather_data) = 0
                            THEN enhance_article(a, AiRaised("IndexError"))
                    ELSE [a EXCEPT !.pc = "loop", !.api_idx = 1, !.model_idx = 1]
    /\ UNCHANGED <<has_table, table, imports, selected_cities, specific_only, last, wx,
                   fetch, art, udb, bot, cli, sess>>

\* one pass of the loop body of _generate_content: the request for
\* (api_idx, model_idx) and what follows from its response
Post ==
    /\ ai.pc = "loop"
    /\ \E response \in GenerationResponses :
          LET disposition == Disposition(response)
              position == NextPosition(ai, response)
              a == [ai EXCEPT !.attempts = ai.attempts + 1,
                              !.attempt = [api_idx |-> ai.api_idx,
                                           model_idx |-> ai.model_idx,
                                           response |-> response]]
          IN  ai' = IF disposition = "return" THEN Return(a, AiText(Strip(response.text)))
                    ELSE IF disposition = "raise"
                            THEN Return(a, AiRaised(ExceptionOf(response)))
                    ELSE IF position.api_idx <= ai.keys
                            THEN [a EXCEPT !.api_idx = position.api_idx,
                                           !.model_idx = position.model_idx]
                    ELSE [a EXCEPT !.pc = "test", !.api_idx = 1, !.model_idx = 0,
                                   !.rate_limited_count = 0]
    /\ UNCHANGED <<has_table, table, imports, selected_cities, specific_only, last, wx,
                   fetch, art, udb, bot, cli, sess>>

\* faulty variant: auto_recovery_attempted is not set before the recovery
TestPost_NoLatch ==
    /\ ai.pc = "test"
    /\ \E response \in TestResponses :
          LET count == ai.rate_limited_count
                          + (IF response.exception = "" /\ response.status = 429
                                THEN 1 ELSE 0)
              a == [ai EXCEPT !.tests = ai.tests + 1, !.rate_limited_count = count,
                              !.attempt = NoAttempt]
          IN  ai' = IF ai.api_idx < ai.keys THEN [a EXCEPT !.api_idx = ai.api_idx + 1]
                    ELSE IF count = ai.keys /\ ~ai.auto_recovery_attempted /\ ai.generator
                            THEN [a EXCEPT !.pc = "recovery"]
                    ELSE MarkUnavailable(a)
    /\ UNCHANGED <<has_table, table, imports, selected_cities, specific_only, last, wx,
                   fetch, art, udb, bot, cli, sess>>

\* the test request for the key api_idx after the loop; after the last key
\* either the automatic recovery begins or the enhancer is marked unavailable
\* (attempt holds the last generation request until the first test request)
TestPost ==
    /\ ai.pc = "test"
    /\ \E response \in TestResponses :
          LET count == ai.rate_limited_count
                          + (IF response.exception = "" /\ response.status = 429
                                THEN 1 ELSE 0)
              a == [ai EXCEPT !.tests = ai.tests + 1, !.rate_limited_count = count,
                              !.attempt = NoAttempt]
          IN  ai' = IF ai.api_idx < ai.keys THEN [a EXCEPT !.api_idx = ai.api_idx + 1]
                    ELSE IF count = ai.keys /\ ~ai.auto_recovery_attempted /\ ai.generator
                            THEN [a EXCEPT !.pc = "recovery",
                                           !.auto_recovery_attempted = TRUE]
                    ELSE MarkUnavailable(a)
    /\ UNCHANGED <<has_table, table, imports, selected_cities, specific_only, last, wx,
                   fetch, art, udb, bot, cli, sess>>

\* generate_new_keys(num_keys=5) of the automatic recovery: new_keys keys
\* were made and _generate_content starts again, or none and it gives up
GenerateNewKeys ==
    /\ ai.pc = "recovery"
    /\ \E new_keys \in 0..Min(num_keys, MaxKeys - ai.keys) :
          ai' = IF new_keys > 0
                   THEN [ai EXCEPT !.keys = ai.keys + new_keys,
                                   !.ai_available = TRUE, !.last_error = None,
                                   !.pc = "loop", !.api_idx = 1, !.model_idx = 1,
                                   !.rate_limited_count = 0, !.depth = ai.depth + 1]
                ELSE MarkUnavailable(ai)
    /\ UNCHANGED <<has_table, table, imports, selected_cities, specific_only, last, wx,
                   fetch, art, udb, bot, cli, sess>>

\* faulty variant: a manual recovery that adds the keys and leaves the flag
ManualRecovery_KeysOnly(a, new_keys) ==
    [a EXCEPT !.keys = a.keys + new_keys, !.last_error = None,
              !.auto_recovery_attempted = FALSE, !.ok = TRUE]

\* trigger_manual_recovery after generate_new_keys made new_keys keys
ManualRecovery(a, new_keys) ==
    [a EXCEPT !.keys = a.keys + new_keys, !.ai_available = TRUE, !.last_error = None,
              !.auto_recovery_attempted = FALSE, !.ok = TRUE]

\* trigger_manual_recovery(num_keys)
TriggerManualRecovery ==
    /\ ai.pc = "idle"
    /\ LET a == Begin(ai, "trigger_manual_recovery", <<>>, <<>>)
       IN  IF ~ai.generator THEN ai' = a
           ELSE \E new_keys \in 0..Min(num_keys, MaxKeys - ai.keys) :
                   ai' = IF new_keys > 0 THEN ManualRecovery(a, new_keys) ELSE a
    /\ UNCHANGED <<has_table, table, imports, selected_cities, specific_only, last, wx,
                   fetch, art, udb, bot, cli, sess>>

AiNext ==
    \/ AiGenerateTitle
    \/ GenerateContent
    \/ EnhanceArticle
    \/ Post
    \/ TestPost
    \/ GenerateNewKeys
    \/ TriggerManualRecovery

AiSpec == AiInit /\ [][AiNext]_vars

\* the calls of _generate_content alone, and the manual recovery between
\* them; a request ends within its timeout and generate_new_keys returns,
\* so a call that has begun takes its next step
GenerateContentNext ==
    \/ GenerateContent
    \/ Post
    \/ TestPost
    \/ GenerateNewKeys
    \/ TriggerManualRecovery

GenerateContentSpec ==
    AiInit /\ [][GenerateContentNext]_vars /\ WF_vars(Post \/ TestPost \/ GenerateNewKeys)


-----------------------------------------------------------------------------
(* Claims about the AI enhancer *)

\* the HTTP requests a call has sent: generation requests and test requests
Sent(a) == a.attempts + a.tests

\* C16 as stated: once ai_available is false no operation makes it true
\* again, and generate_title and _generate_content return None without a
\* request.  A successful trigger_manual_recovery sets it to true.
C16_LatchNeverReopens ==
    (ai.op # "__init__" /\ ~ai.before)
    => /\ ~ai.ai_available
       /\ ai.op \in {"generate_title", "_generate_content"}
             => ai.pc = "idle" /\ ai.ret = AiNone /\ Sent(ai) = 0

\* C16 amended: a call made while ai_available is false sends no HTTP
\* request; generate_title, _generate_content and enhance_article return
\* None for the title and leave the flag false; the flag becomes true again
\* only by, and always by, a trigger_manual_recovery that made new keys.
C16_LatchUntilManualRecovery ==
    (ai.op # "__init__" /\ ~ai.before)
    => /\ ai.pc = "idle"
       /\ Sent(ai) = 0
       /\ ai.op \in {"generate_title", "_generate_content", "enhance_article"}
             => ai.ret = AiNone /\ ~ai.ai_available
       /\ ai.ai_available <=> (ai.op = "trigger_manual_recovery" /\ ai.ok)

\* generate_title was called on an enhancer whose keys were exhausted
C16_Witness ==
    /\ ai.op = "generate_title"
    /\ ~ai.before
    /\ ai.last_error # None
    /\ Len(ai.weather_data) > 0
    /\ ai.ret = AiNone
    /\ Sent(ai) = 0


\* the text mentions the name: it holds the name's letters at some place,
\* in whatever case
Mentions(text, name) ==
    \E i \in 1..Len(text) :
        /\ i + Len(name) - 1 <= Len(text)
        /\ \A j \in 1..Len(name) : ToUpper(text[i + j - 1]) = ToUpper(name[j])

\* the listed big cities by their names
ListedCities == {Capitalize(common_cities[i]) : i \in 1..Len(common_cities)}

\* the listed cities a text mentions that are no name of weather_data
ForeignCities(text, weather_data) ==
    {city \in ListedCities :
        /\ Mentions(text, city)
        /\ \A i \in 1..Len(weather_data) : weather_data[i].name # city}

\* the call ended with a generation response that carried a title
TitleGenerated(a) ==
    /\ a.pc = "idle"
    /\ a.attempt.response.body = "text"
    /\ Strip(a.attempt.response.text) # <<>>

\* C17: when the generated title mentions a listed big city that is no name
\* of the input, generate_title returns None (and so does enhance_article
\* for the title); the title is not handed to the caller.
C17_ForeignCityTitleRejected ==
    (/\ ai.op \in {"generate_title", "enhance_article"}
     /\ TitleGenerated(ai)
     /\ ForeignCities(ai.attempt.response.text, ai.weather_data) # {})
    => ai.ret = AiNone

\* the title came back naming JAKARTA for an input of Medan and Depok, and
\* generate_title returned None although the enhancer is still available
C17_Witness ==
    /\ ai.op = "generate_title"
    /\ TitleGenerated(ai)
    /\ ai.attempt.response.text = TitleJAKARTA
    /\ ForeignCities(ai.attempt.response.text, ai.weather_data)
          = {<<"J","a","k","a","r","t","a">>}
    /\ ai.ai_available
    /\ ai.ret = AiNone


\* C18: enhance_article never raises: whatever the requests answered, it
\* returns the base article as it was given together with None or a title,
\* and a title is the stripped text of the response that ended the loop.
C18_EnhanceNeverRaises ==
    (ai.op = "enhance_article" /\ ai.pc = "idle")
    => /\ ai.ret.raised = ""
       /\ ai.article = ai.base_article
       /\ \/ ai.ret = AiNone
          \/ /\ ~ai.ret.none
             /\ ai.ret.text # <<>>
             /\ TitleGenerated(ai)
             /\ ai.ret.text = Strip(ai.attempt.response.text)

\* a generation request answered with a body whose text is null, or with an
\* exception no except clause of _generate_content names, and
\* enhance_article returned the article with None
C18_Witness ==
    /\ ai.op = "enhance_article"
    /\ ai.pc = "idle"
    /\ ai.attempts > 0
    /\ Disposition(ai.attempt.response) = "raise"
    /\ ai.base_article # <<>>
    /\ ai.article = ai.base_article
    /\ ai.ret = AiNone
    /\ ~ai.ai_available


-----------------------------------------------------------------------------
(* Claims about the failures of the region store *)

\* C19: no query of the region store lets an exception reach its caller:
\* a failure of the storage layer comes back as an empty list, None or
\* False.  A query on a database without the table raises.
C19_QueriesNeverRaise ==
    last.op \in {"get_cities_by_timezone", "get_city_by_name", "get_random_cities"}
    => last.ret # "raise"


-----------------------------------------------------------------------------
(* User database: database.py *)

\* the most log_user_activity calls of a run
MaxLog == 4

\* Telegram user ids, usernames (None for a user without one), names and
\* commands of the calls
UserIds == {7695, 42}
Usernames == {None, "lf"}
NameOfUser(user_id) == IF user_id = 42 THEN "A B" ELSE "L F"
Commands == {"cuacakota None", "start"}

\* SELECT user_id FROM users WHERE user_id = ? ... fetchone()
user_exists(users, user_id) == \E i \in 1..Len(users) : users[i].user_id = user_id

\* faulty variant: the UPDATE leaves total_commands as it was
UpdateUser_SameTotal(users, user_id, username, name, current_time) ==
    [i \in 1..Len(users) |->
        IF users[i].user_id = user_id
           THEN [users[i] EXCEPT !.username = username, !.name = name,
                                 !.last_seen = current_time]
        ELSE users[i]]

\* UPDATE users SET username, name, last_seen, total_commands + 1
\* WHERE user_id = ?
UpdateUser(users, user_id, username, name, current_time) ==
    [i \in 1..Len(users) |->
        IF users[i].user_id = user_id
           THEN [users[i] EXCEPT !.username = username, !.name = name,
                                 !.last_seen = current_time,
                                 !.total_commands = users[i].total_commands + 1]
        ELSE users[i]]

\* INSERT INTO users (...) VALUES (?, ?, ?, ?, ?, 1)
InsertUser(users, user_id, username, name, current_time) ==
    Append(users, [user_id |-> user_id, username |-> username, name |-> name,
                   first_seen |-> current_time, last_seen |-> current_time,
                   total_commands |-> 1])

\* INSERT INTO activity_log (...): id is the AUTOINCREMENT key
InsertActivity(activity_log, user_id, username, name, command, current_time) ==
    Append(activity_log, [id |-> Len(activity_log) + 1, user_id |-> user_id,
                          username |-> username, name |-> name,
                          command |-> command, timestamp |-> current_time])

\* UserDatabase(db_path) on a new file: init_database creates empty tables;
\* now is the clock datetime.now() reads
UserDbInit ==
    /\ bot = Idle
    /\ cli = Idle
    /\ sess = Idle
    /\ has_table = FALSE
    /\ table = <<>>
    /\ imports = <<>>
    /\ selected_cities = EmptyDict
    /\ specific_only = TRUE
    /\ last = Idle
    /\ wx = Idle
    /\ fetch = FetchIdle
    /\ art = Idle
    /\ ai = Idle
    /\ udb = [op |-> "init_database", users |-> <<>>, activity_log |-> <<>>, now |-> 0,
              user_id |-> 0, command |-> ""]

\* log_user_activity(user_id, username, name, command): one transaction;
\* the clock has advanced since the call before
LogUserActivity(user_id, username, name, command) ==
    /\ Len(udb.activity_log) < MaxLog
    /\ LET current_time == udb.now + 1
           users == IF user_exists(udb.users, user_id)
                       THEN UpdateUser(udb.users, user_id, username, name, current_time)
                    ELSE InsertUser(udb.users, user_id, username, name, current_time)
       IN  udb' = [op |-> "log_user_activity",
                   users |-> users,
                   activity_log |-> InsertActivity(udb.activity_log, user_id, username,
                                                   name, command, current_time),
                   now |-> current_time,
                   user_id |-> user_id, command |-> command]
    /\ UNCHANGED <<has_table, table, imports, selected_cities, specific_only, last, wx,
                   fetch, art, ai, bot, cli, sess>>

UserDbNext ==
    \E user_id \in UserIds, username \in Usernames, command \in Commands :
        LogUserActivity(user_id, username, NameOfUser(user_id), command)

UserDbSpec == UserDbInit /\ [][UserDbNext]_vars

-----------------------------------------------------------------------------
(* Claims about the user database *)

\* the activity_log rows of a user
ActivityOf(activity_log, user_id) ==
    {i \in 1..Len(activity_log) : activity_log[i].user_id = user_id}

\* SELECT ... FROM activity_log WHERE user_id = ? ORDER BY timestamp DESC
\* LIMIT 1: the rows of the user no other row of the user is later than
LatestOf(activity_log, user_id) ==
    {i \in ActivityOf(activity_log, user_id) :
        \A j \in ActivityOf(activity_log, user_id) :
            activity_log[j].timestamp <= activity_log[i].timestamp}

-----------------------------------------------------------------------------
(* Claims about the search of the city selector *)

\* C21: search_city(name) returns what the store's get_city_by_name(name)
\* returns, so it is non-null exactly when add_specific_city(name) finds
\* the city, and both name the same city.  search_city takes the first row
\* by nama of the keyword search, the name lookup the first row stored.
C21_SearchCityIsNameLookup ==
    (last.op = "search_city" /\ has_table)
    => last.city = CityByName[table][last.city_name]


-----------------------------------------------------------------------------
(* Claims about the key and model loop of the AI enhancer *)

\* the responses the claim sorts into its three kinds
GivesText(response) ==
    /\ response.exception = ""
    /\ response.status = 200
    /\ response.body = "text"
    /\ Strip(response.text) # <<>>

AbandonsKey(response) ==
    \/ response.exception = "ConnectionError"
    \/ response.exception = "" /\ response.status \in {429, 401, 403}

MovesToNextModel(response) ==
    \/ response.exception = "Timeout"
    \/ /\ response.exception = ""
       /\ \/ response.status = 200 /\ response.body \in {"no_candidates", "not_json"}
          \/ response.status = 200 /\ response.body = "text"
                /\ Strip(response.text) = <<>>
          \/ response.status \notin {200, 429, 401, 403}

\* the place of a (key, model) pair in key-major, model-minor order; the
\* place after the last pair of the last key is where the loop ends
Place(api_idx, model_idx) == (api_idx - 1) * Len(models) + model_idx
LoopEnd(a) == Place(a.keys, Len(models)) + 1

\* the place of the request the loop makes next, LoopEnd when it has ended
\* and the test requests begin
NextPlace(a) ==
    IF a.pc = "loop" THEN Place(a.api_idx, a.model_idx) ELSE LoopEnd(a)

\* C22: the loop starts with the first model of the first key; a 200 with
\* text ends the call at once with that text; 429, 401, 403 and a
\* connection error lead to the first model of the next key; 404, a
\* timeout, a parse error, an empty 200 and any other status lead to the
\* next pair in key-major, model-minor order.
C22_KeyMajorLadder ==
    /\ (ai.pc = "loop" /\ ai.attempt = NoAttempt)
          => Place(ai.api_idx, ai.model_idx) = 1
    /\ ai.attempt # NoAttempt
          => LET response == ai.attempt.response
                 k == ai.attempt.api_idx
                 m == ai.attempt.model_idx
             IN  /\ GivesText(response)
                    => /\ ai.pc = "idle"
                       /\ ai.op = "_generate_content"
                             => ai.ret = AiText(Strip(response.text))
                 /\ AbandonsKey(response)
                    => /\ ai.pc \in {"loop", "test"}
                       /\ NextPlace(ai) = Place(k + 1, 1)
                 /\ MovesToNextModel(response)
                    => /\ ai.pc \in {"loop", "test"}
                       /\ NextPlace(ai) = Place(k, m) + 1

\* the first key was abandoned at its first model, the first model of the
\* second key was passed over, and its second model gave the text returned
C22_Witness ==
    /\ ai.op = "_generate_content"
    /\ ai.pc = "idle"
    /\ ai.attempts = 3
    /\ ai.attempt.api_idx = 2
    /\ ai.attempt.model_idx = 2
    /\ GivesText(ai.attempt.response)
    /\ ai.ret = AiText(Strip(ai.attempt.response.text))

-----------------------------------------------------------------------------
(* The bot behind the webhook server: telegram_bot.py, webhook_server.py *)

\* app.run(host, port, debug=False) serves every POST /telegram in a thread
\* of its own; each thread runs its handler on a fresh event loop, and all
\* of them use the one module-level city_selector.  Two requests are in
\* flight.
Requests == {"r1", "r2"}

MaxArgs == 2         \* /artikelkota names at most MaxArgs cities

\* the (city_name, hour) list parsed from the arguments of /artikelkota
BotCityNames == {<<"D","e","p","o","k">>, <<"P","a","l","u">>, <<"M","e","d","a","n">>}
CityData == UNION {[1..n -> BotCityNames] : n \in 1..MaxArgs}

\* existing_tz.count(timezone)
TzCount(selected, timezone) ==
    Cardinality({name \in DOMAIN selected : selected[name].timezone = timezone})

\* artikelkota: the arguments of select_random_cities when fewer than four
\* cities are selected: two WIB, one WITA and one WIT less the zones already
\* there, the rest of the missing cities going to WIB
NeededArgs(selected) ==
    LET remaining == 4 - Cardinality(DOMAIN selected)
        wib_needed == IF 2 - TzCount(selected, "WIB") > 0
                      THEN 2 - TzCount(selected, "WIB") ELSE 0
        wita_needed == IF 1 - TzCount(selected, "WITA") > 0
                       THEN 1 - TzCount(selected, "WITA") ELSE 0
        wit_needed == IF 1 - TzCount(selected, "WIT") > 0
                      THEN 1 - TzCount(selected, "WIT") ELSE 0
        total_needed == wib_needed + wita_needed + wit_needed
    IN  [total_cities |-> remaining,
         wib_count |-> IF total_needed < remaining
                       THEN wib_needed + (remaining - total_needed) ELSE wib_needed,
         wita_count |-> wita_needed,
         wit_count |-> wit_needed]

\* random_command: select_random_cities(total_cities=4, wib_count=2,
\* wita_count=1, wit_count=1)
RandomArgs == [total_cities |-> 4, wib_count |-> 2, wita_count |-> 1, wit_count |-> 1]

\* a request before its handler has run: its command and arguments, its
\* place in the handler, the selection as its own selector calls leave it
\* (mine), its local variable selected_cities and whether that still is the
\* dict object the selector holds (live), and the cities it fetched
NewRequest(command, city_data) ==
    [command |-> command, city_data |-> city_data, pc |-> "init", i |-> 1,
     not_found |-> FALSE, mine |-> EmptyDict, selected_cities |-> EmptyDict,
     live |-> FALSE, has_read |-> FALSE, fetched |-> {}, error |-> FALSE]

\* sqlite3 lets only the thread that opened a connection use it: a query
\* from another thread raises sqlite3.ProgrammingError
CanQuery(r) == bot.owner = r

\* self.selected_cities = {}: the selector holds a new dict, and no local
\* variable of a request is that dict any more
Rebound(r, mine, pc, error) ==
    [bot EXCEPT !.req =
        [q \in Requests |->
            IF q = r
            THEN [bot.req[q] EXCEPT !.mine = mine, !.pc = pc, !.live = FALSE,
                                    !.error = error]
            ELSE [bot.req[q] EXCEPT !.live = FALSE]]]

\* city_selector.clear_selected_cities() called by request r
HandlerClear(r, pc) ==
    /\ selected_cities' = EmptyDict
    /\ specific_only' = TRUE
    /\ bot' = Rebound(r, EmptyDict, pc, FALSE)

\* city_selector.select_random_cities(**args) called by request r: the
\* selection is cleared, then the store is queried; an exception ends the
\* handler in its except clause
HandlerSelect(r, args, pc) ==
    LET requested == RequestedCounts(args.total_cities, args.wib_count,
                                     args.wita_count, args.wit_count)
        Draws(k) == IF ZoneWanted(requested[k])
                    THEN get_random_cities(CitiesByTimezone[table], requested[k],
                                           TimezoneNames[k])
                    ELSE {<<>>}
    IN  IF ~CanQuery(r) /\ \E k \in 1..3 : ZoneWanted(requested[k])
        THEN /\ selected_cities' = EmptyDict
             /\ specific_only' = TRUE
             /\ bot' = Rebound(r, EmptyDict, "done", TRUE)
        ELSE \E cities_wib \in Draws(1), cities_wita \in Draws(2), cities_wit \in Draws(3) :
             LET selection ==
                     SelectionAfterRandom(selected_cities, cities_wib, cities_wita, cities_wit)
             IN  /\ selected_cities' = selection
                 /\ specific_only' = (selection = EmptyDict)
                 /\ bot' = Rebound(r, selection, pc, FALSE)

\* city_selector.add_specific_city(city_name) in the loop of artikelkota:
\* the city is stored in the dict the selector holds, which a local
\* variable of any request may be
HandlerAdd(r) ==
    LET me == bot.req[r]
        city_name == me.city_data[me.i]
        last_one == me.i = Len(me.city_data)
    IN  IF ~CanQuery(r)
        THEN /\ bot' = [bot EXCEPT !.req[r].pc = "done", !.req[r].error = TRUE]
             /\ UNCHANGED <<selected_cities, specific_only>>
        ELSE LET city == CityByName[table][city_name]
                 not_found == me.not_found \/ city = NoneRec
                 pc == IF ~last_one THEN "add"
                       ELSE IF not_found THEN "done" ELSE "read"
             IN  IF city = NoneRec
                 THEN /\ bot' = [bot EXCEPT !.req[r].pc = pc, !.req[r].i = me.i + 1,
                                            !.req[r].not_found = TRUE]
                      /\ UNCHANGED <<selected_cities, specific_only>>
                 ELSE /\ selected_cities' = SelectionAfterAdd(selected_cities, city)
                      /\ UNCHANGED specific_only
                      /\ bot' = [bot EXCEPT !.req =
                            [q \in Requests |->
                                LET seen == IF bot.req[q].live
                                            THEN [bot.req[q] EXCEPT
                                                    !.selected_cities = selected_cities']
                                            ELSE bot.req[q]
                                IN  IF q = r
                                    THEN [seen EXCEPT
                                            !.mine = SelectionAfterAdd(me.mine, city),
                                            !.pc = pc, !.i = me.i + 1]
                                    ELSE seen]]

\* selected_cities = city_selector.get_selected_cities(): the dict the
\* selector holds, not a copy
HandlerRead(r, pc) ==
    /\ bot' = [bot EXCEPT !.req[r].selected_cities = selected_cities,
                          !.req[r].live = TRUE, !.req[r].has_read = TRUE,
                          !.req[r].pc = pc]
    /\ UNCHANGED <<selected_cities, specific_only>>

\* telegram_webhook: get_telegram_app() runs init_components(), and the
\* first thread to find city_selector None opens the connection
TelegramWebhook(r) ==
    /\ bot.req[r].pc = "init"
    /\ bot' = [bot EXCEPT !.owner = IF bot.owner = "none" THEN r ELSE bot.owner,
                          !.req[r].pc = "clear"]
    /\ UNCHANGED <<has_table, table, imports, selected_cities, specific_only, last, wx,
                   fetch, art, ai, udb, cli, sess>>

\* artikelkota, lines 547-616, one selector call at a time: clear, add each
\* named city, read; with fewer than four cities select the missing ones
\* and read again; then fetch the weather of every city of the dict read
Artikelkota(r) ==
    LET me == bot.req[r]
    IN  /\ me.command = "artikelkota"
        /\ \/ me.pc = "clear" /\ HandlerClear(r, "add")
           \/ me.pc = "add" /\ HandlerAdd(r)
           \/ /\ me.pc = "read"
              /\ HandlerRead(r, IF Cardinality(DOMAIN selected_cities) < 4
                                THEN "select" ELSE "fetch")
           \/ me.pc = "select" /\ HandlerSelect(r, NeededArgs(me.selected_cities), "reread")
           \/ me.pc = "reread" /\ HandlerRead(r, "fetch")
           \/ /\ me.pc = "fetch"
              /\ bot' = [bot EXCEPT !.req[r].fetched = DOMAIN me.selected_cities,
                                    !.req[r].pc = "done"]
              /\ UNCHANGED <<selected_cities, specific_only>>
        /\ UNCHANGED <<has_table, table, imports, last, wx, fetch, art, ai, udb, cli, sess>>

\* random_command, lines 1070-1080: clear, select four cities, read
RandomCommand(r) ==
    LET me == bot.req[r]
    IN  /\ me.command = "random"
        /\ \/ me.pc = "clear" /\ HandlerClear(r, "select")
           \/ me.pc = "select" /\ HandlerSelect(r, RandomArgs, "read")
           \/ me.pc = "read" /\ HandlerRead(r, "done")
        /\ UNCHANGED <<has_table, table, imports, last, wx, fetch, art, ai, udb, cli, sess>>

\* the server has the imported database; the selector does not exist yet,
\* or a thread that has ended created it
BotInit ==
    /\ cli = Idle
    /\ sess = Idle
    /\ art = Idle
    /\ ai = Idle
    /\ udb = Idle
    /\ imports = <<"wilayah">>
    /\ table = TableAfter(imports)
    /\ has_table = TRUE
    /\ selected_cities = EmptyDict
    /\ specific_only = TRUE
    /\ last = Idle
    /\ wx = Idle
    /\ fetch = FetchIdle
    /\ \E owner \in {"none", "earlier"}, city_data \in CityData :
          bot = [owner |-> owner,
                 req |-> [r \in Requests |->
                            IF r = "r1" THEN NewRequest("artikelkota", city_data)
                            ELSE NewRequest("random", <<>>)]]

BotNext ==
    \E r \in Requests : TelegramWebhook(r) \/ Artikelkota(r) \/ RandomCommand(r)

BotSpec == BotInit /\ [][BotNext]_vars

-----------------------------------------------------------------------------
(* Claims about the requests of the bot *)

\* C23: under every interleaving of two requests, the selection a request
\* reads is the one its own clear, add and select calls left, and the
\* cities it fetches the weather of are the cities of that selection.
C23_RequestReadsOwnSelection ==
    \A r \in Requests :
        LET me == bot.req[r]
        IN  /\ (me.pc \in {"fetch", "done"} /\ me.has_read /\ ~me.error)
                  => me.selected_cities = me.mine
            /\ (me.pc = "done" /\ me.command = "artikelkota" /\ me.has_read /\ ~me.error)
                  => me.fetched = DOMAIN me.mine

-----------------------------------------------------------------------------
(* The command-line program: main.py, config_db.py *)

\* TOTAL_CITIES, WIB_CITIES, WITA_CITIES, WIT_CITIES of config_db
CitySelectionSettings ==
    [total_cities |-> 4, wib_count |-> 2, wita_count |-> 1, wit_count |-> 1]

\* A name of a module is bound to a dict object.  heap is the sequence of
\* the dict objects created so far, and a binding is a position in it: the
\* selector's self.selected_cities, CITY_CODES of config_db, and the
\* CITY_CODES that "from config_db import CITY_CODES" binds in main.  0 is a
\* name not bound yet (for the selector: _city_selector is None).
\* db_exists: the file DATABASE_PATH exists; sql_file: what wilayah_2020.sql is.
NewRun(db_exists, sql_file) ==
    [pc |-> "start", db_exists |-> db_exists, sql_file |-> sql_file,
     heap |-> <<>>, selector |-> 0, config_CITY_CODES |-> 0, main_CITY_CODES |-> 0,
     forced |-> FALSE, displayed |-> {}, passed |-> EmptyDict]

\* initialize_cities(force_new) called in state c of the run, going to pc
\* when it returns: CitySelector(DATABASE_PATH) is created on the first
\* call, importing the dump into a database file that did not exist; the
\* bound CITY_CODES is returned when it is non-empty and force_new is
\* false; otherwise CITY_CODES of config_db is bound to the dict
\* select_random_cities returns.  An exception of the query ends the run.
initialize_cities(c, force_new, pc) ==
    LET create == c.selector = 0
        import == create /\ ~c.db_exists /\ c.sql_file # "missing"
        imports1 == IF import THEN Append(imports, c.sql_file) ELSE imports
        table1 == IF import THEN InsertAll(table, SqlFiles[c.sql_file]) ELSE table
        has_table1 == has_table \/ import
        heap1 == IF create THEN Append(c.heap, EmptyDict) ELSE c.heap
        selector1 == IF create THEN Len(heap1) ELSE c.selector
        c1 == [c EXCEPT !.db_exists = TRUE, !.heap = heap1, !.selector = selector1]
        requested == RequestedCounts(CitySelectionSettings.total_cities,
                                     CitySelectionSettings.wib_count,
                                     CitySelectionSettings.wita_count,
                                     CitySelectionSettings.wit_count)
        Draws(k) == get_random_cities(CitiesByTimezone[table1], requested[k],
                                      TimezoneNames[k])
    IN  /\ imports' = imports1
        /\ table' = table1
        /\ has_table' = has_table1
        /\ IF ~force_new /\ heap1[c.config_CITY_CODES] # EmptyDict
           THEN /\ cli' = [c1 EXCEPT !.pc = pc]
                /\ selected_cities' = heap1[selector1]
                /\ UNCHANGED specific_only
           ELSE IF ~has_table1
           THEN /\ cli' = [c1 EXCEPT !.pc = "raised", !.heap = Append(heap1, EmptyDict),
                                     !.selector = Len(heap1) + 1]
                /\ selected_cities' = EmptyDict
                /\ specific_only' = TRUE
           ELSE \E cities_wib \in Draws(1), cities_wita \in Draws(2),
                   cities_wit \in Draws(3) :
                LET selection == SelectionAfterRandom(heap1[selector1], cities_wib,
                                                      cities_wita, cities_wit)
                IN  /\ cli' = [c1 EXCEPT !.pc = pc, !.heap = Append(heap1, selection),
                                         !.selector = Len(heap1) + 1,
                                         !.config_CITY_CODES = Len(heap1) + 1]
                    /\ selected_cities' = selection
                    /\ specific_only' = (selection = EmptyDict)

\* main.py, from config_db import CITY_CODES: the module body of config_db
\* runs, binding CITY_CODES to {} and calling initialize_cities() when the
\* database file exists; then main binds its own CITY_CODES to the dict
\* config_db's CITY_CODES is bound to at that moment
ImportConfigDb ==
    /\ cli.pc = "start"
    /\ LET c == [cli EXCEPT !.heap = <<EmptyDict>>, !.config_CITY_CODES = 1]
       IN  IF c.db_exists
           THEN initialize_cities(c, FALSE, "bind")
           ELSE /\ cli' = [c EXCEPT !.pc = "bind"]
                /\ UNCHANGED <<has_table, table, imports, selected_cities, specific_only>>
    /\ UNCHANGED <<last, wx, fetch, art, ai, udb, bot, sess>>

BindCityCodes ==
    /\ cli.pc = "bind"
    /\ cli' = [cli EXCEPT !.main_CITY_CODES = cli.config_CITY_CODES, !.pc = "main"]
    /\ UNCHANGED <<has_table, table, imports, selected_cities, specific_only, last, wx,
                   fetch, art, ai, udb, bot, sess>>

\* main(), step 0: if not CITY_CODES: initialize_cities(force_new=True)
MainInitializeCities ==
    /\ cli.pc = "main"
    /\ IF cli.heap[cli.main_CITY_CODES] = EmptyDict
       THEN initialize_cities([cli EXCEPT !.forced = TRUE], TRUE, "display")
       ELSE /\ cli' = [cli EXCEPT !.pc = "display"]
            /\ UNCHANGED <<has_table, table, imports, selected_cities, specific_only>>
    /\ UNCHANGED <<last, wx, fetch, art, ai, udb, bot, sess>>

\* main(), lines 41-50: the cities of CITY_CODES are printed
MainDisplay ==
    /\ cli.pc = "display"
    /\ cli' = [cli EXCEPT !.displayed = DOMAIN cli.heap[cli.main_CITY_CODES],
                          !.pc = "fetch"]
    /\ UNCHANGED <<has_table, table, imports, selected_cities, specific_only, last, wx,
                   fetch, art, ai, udb, bot, sess>>

\* main(), line 60: fetch_all_cities_weather(CITY_CODES, auto_replace_failed=True)
MainFetch ==
    /\ cli.pc = "fetch"
    /\ cli' = [cli EXCEPT !.passed = cli.heap[cli.main_CITY_CODES], !.pc = "done"]
    /\ UNCHANGED <<has_table, table, imports, selected_cities, specific_only, last, wx,
                   fetch, art, ai, udb, bot, sess>>

\* the database file is missing, or it exists and holds what was imported
\* into it; wilayah_2020.sql is one of the dumps or missing
MainInit ==
    /\ sess = Idle
    /\ bot = Idle
    /\ art = Idle
    /\ ai = Idle
    /\ udb = Idle
    /\ last = Idle
    /\ wx = Idle
    /\ fetch = FetchIdle
    /\ selected_cities = EmptyDict
    /\ specific_only = TRUE
    /\ \E db_exists \in BOOLEAN, sql_file \in SqlFileNames :
          /\ cli = NewRun(db_exists, sql_file)
          /\ imports \in IF db_exists THEN ImportSeqs ELSE {<<>>}
          /\ table = TableAfter(imports)
          /\ has_table = (imports # <<>>)

MainNext ==
    ImportConfigDb \/ BindCityCodes \/ MainInitializeCities \/ MainDisplay \/ MainFetch

MainSpec == MainInit /\ [][MainNext]_vars

-----------------------------------------------------------------------------
(* Claims about the command-line program *)

\* C24: when main() found CITY_CODES empty and called
\* initialize_cities(force_new=True), and that call selected cities, then
\* the cities main displays and the mapping it passes to
\* fetch_all_cities_weather are the newly selected ones.
C24_MainUsesNewSelection ==
    (cli.pc = "done" /\ cli.forced /\ cli.heap[cli.config_CITY_CODES] # EmptyDict)
        => /\ cli.passed = cli.heap[cli.config_CITY_CODES]
           /\ cli.displayed = DOMAIN cli.heap[cli.config_CITY_CODES]

-----------------------------------------------------------------------------
(* Claims about the progress of the replacement loop *)

\* the names of the cities get_random_cities(1, timezone) draws from
PoolNames(timezone) == NamesOf(CitiesByTimezone[table][timezone])

\* C25: a failed city whose zone holds a city that was not attempted and
\* whose forecast is available ends with a replacement.  No request is made
\* for a city that is never attempted, so its forecast can be available in
\* any run: when the call has returned, a failed city without a replacement
\* has no city of its zone that was left unattempted.
C25_UnattemptedCityReplaces ==
    (fetch.pc = "done" /\ ~fetch.raised)
        => \A i \in Unreplaced :
              PoolNames(fetch.failed_cities[i].timezone) \subseteq fetch.attempted_cities

-----------------------------------------------------------------------------
(* Validation and fetch of one forecast response *)

\* one response of the forecast API, given to validate_city_has_data and
\* then to get_weather_data
ValidateInit ==
    /\ bot = Idle
    /\ cli = Idle
    /\ sess = Idle
    /\ art = Idle
    /\ ai = Idle
    /\ udb = Idle
    /\ has_table = FALSE
    /\ table = <<>>
    /\ imports = <<>>
    /\ selected_cities = EmptyDict
    /\ specific_only = TRUE
    /\ last = Idle
    /\ fetch = FetchIdle
    /\ \E resp \in Responses :
          wx = [op |-> "call", fn |-> "validate_city_has_data", resp |-> resp]

\* validate_city_has_data(city_code), wx.resp being the answer to its request
ValidateCityHasData ==
    /\ wx.op = "call" /\ wx.fn = "validate_city_has_data"
    /\ wx' = [op |-> "validate_city_has_data", resp |-> wx.resp,
              ret |-> validate_city_has_data(wx.resp)]
    /\ UNCHANGED <<has_table, table, imports, selected_cities, specific_only, last, fetch,
                   art, ai, udb, bot, cli, sess>>

\* get_weather_data(city_code) of a validated city, its request receiving
\* the same answer
GetWeatherData ==
    /\ wx.op = "validate_city_has_data"
    /\ wx' = [op |-> "get_weather_data", resp |-> wx.resp, valid |-> wx.ret,
              weather_data |-> get_weather_data(wx.resp)]
    /\ UNCHANGED <<has_table, table, imports, selected_cities, specific_only, last, fetch,
                   art, ai, udb, bot, cli, sess>>

ValidateNext == ValidateCityHasData \/ GetWeatherData

ValidateSpec == ValidateInit /\ [][ValidateNext]_vars

\* C26: validate_city_has_data returns true for a response exactly when
\* get_weather_data returns a non-empty entry list for it.
C26_ValidateAgreesWithFetch ==
    wx.op = "get_weather_data" => (wx.valid <=> wx.weather_data # <<>>)

-----------------------------------------------------------------------------
(* Claims about titles that name cities of the input *)

\* the text holds the name at place i, in whatever case
MentionsAt(text, name, i) ==
    /\ i >= 1
    /\ i + Len(name) - 1 <= Len(text)
    /\ \A j \in 1..Len(name) : ToUpper(text[i + j - 1]) = ToUpper(name[j])

\* every mention of a listed big city in the text is part of a mention of
\* a name of weather_data
OnlyInputCities(text, weather_data) ==
    \A city \in ListedCities : \A i \in 1..Len(text) :
        MentionsAt(text, city, i)
        => \E k \in 1..Len(weather_data) : \E j \in 1..i :
              /\ MentionsAt(text, weather_data[k].name, j)
              /\ i + Len(city) <= j + Len(weather_data[k].name)

\* C27: a generated title whose city mentions are all names of the input
\* (names that contain a listed big-city word included) is returned by
\* generate_title, not replaced by None.
C27_InputCityTitleAccepted ==
    (/\ ai.op = "generate_title"
     /\ TitleGenerated(ai)
     /\ OnlyInputCities(ai.attempt.response.text, ai.weather_data))
    => ai.ret = AiText(Strip(ai.attempt.response.text))

-----------------------------------------------------------------------------
(* The interactive city selection and its stored session: telegram_bot.py,
   database.py *)

\* the cities and hours offered by the keyboards of the flow
SessionCities == {<<"D","e","p","o","k">>, <<"P","a","l","u">>}
SessionHours == {6, 12}
SessionZones == {"WIB", "ALL"}

\* A user_data dict: the keys it holds and their values ([] , {} and None
\* for a key it does not hold).  json.dumps and json.loads map a dict of
\* this shape (string keys, a list of strings, a dict from strings to
\* integers, a string or null) to an equal one.
EmptyData ==
    [keys |-> {}, selected_cities |-> <<>>, city_times |-> EmptyDict,
     timezone_filter |-> None]

\* the entry of selected_cities for a city: f"{city_name} ({hour:02d}:00)"
SelectedEntry(city_name, hour) == [city_name |-> city_name, hour |-> hour]

\* user_data.update(session_data)
Update(user_data, session_data) ==
    [keys |-> user_data.keys \cup session_data.keys,
     selected_cities |-> IF "selected_cities" \in session_data.keys
                         THEN session_data.selected_cities ELSE user_data.selected_cities,
     city_times |-> IF "city_times" \in session_data.keys
                    THEN session_data.city_times ELSE user_data.city_times,
     timezone_filter |-> IF "timezone_filter" \in session_data.keys
                         THEN session_data.timezone_filter ELSE user_data.timezone_filter]

\* get_session(user_id): the stored dict, {} when there is no row
get_session(s) == IF s.has_row THEN s.row ELSE EmptyData

\* update_session(user_id, data): INSERT OR REPLACE of the row
update_session(s, data) == [s EXCEPT !.has_row = TRUE, !.row = data]

\* clear_session(user_id): DELETE of the row
clear_session(s) == [s EXCEPT !.has_row = FALSE, !.row = EmptyData]

\* button_callback, lines 1354-1367: with an empty context.user_data the
\* stored session, if it is not empty, is copied into it
Restore(s) ==
    IF s.user_data.keys = {} /\ get_session(s).keys # {}
    THEN [s EXCEPT !.user_data = Update(s.user_data, get_session(s)), !.restored = TRUE]
    ELSE [s EXCEPT !.restored = FALSE]

\* "if 'selected_cities' not in context.user_data: ... = []" and the same
\* for city_times
WithSelection(user_data) ==
    [user_data EXCEPT !.keys = @ \cup {"selected_cities", "city_times"}]

\* the selection and the times set to [] and {}
Cleared(user_data) ==
    [WithSelection(user_data) EXCEPT !.selected_cities = <<>>, !.city_times = EmptyDict]

SessionInit ==
    /\ bot = Idle
    /\ cli = Idle
    /\ art = Idle
    /\ ai = Idle
    /\ udb = Idle
    /\ has_table = FALSE
    /\ table = <<>>
    /\ imports = <<>>
    /\ selected_cities = EmptyDict
    /\ specific_only = TRUE
    /\ last = Idle
    /\ wx = Idle
    /\ fetch = FetchIdle
    /\ sess = [op |-> "init", has_row |-> FALSE, row |-> EmptyData,
               user_data |-> EmptyData, restored |-> FALSE, delivered |-> FALSE]

\* get_telegram_app() builds a new Application for every webhook request,
\* and a restarted process has a new one: context.user_data starts empty
NewApplication ==
    /\ sess.op # "new application"
    /\ sess' = [sess EXCEPT !.op = "new application", !.user_data = EmptyData,
                            !.restored = FALSE]
    /\ UNCHANGED <<has_table, table, imports, selected_cities, specific_only, last, wx,
                   fetch, art, ai, udb, bot, cli>>

\* callback "tz_<zone>": the session is loaded when user_data holds no
\* selection, the filter is set, the selection is created if missing, and
\* user_data is saved
CallbackTimezone(timezone) ==
    /\ LET s == Restore(sess)
           loaded == IF "selected_cities" \notin s.user_data.keys
                        /\ get_session(s).keys # {}
                     THEN Update(s.user_data, get_session(s)) ELSE s.user_data
           filtered == [WithSelection(loaded) EXCEPT
                          !.keys = @ \cup {"timezone_filter"},
                          !.timezone_filter = IF timezone # "ALL" THEN timezone ELSE None]
       IN  sess' = [update_session(s, filtered) EXCEPT
                      !.op = "tz", !.user_data = filtered, !.delivered = FALSE]
    /\ UNCHANGED <<has_table, table, imports, selected_cities, specific_only, last, wx,
                   fetch, art, ai, udb, bot, cli>>

\* callback "time_<city>_<hour>": a city not yet selected is appended with
\* its hour and user_data is saved
CallbackTime(city_name, hour) ==
    /\ LET s == Restore(sess)
           user_data == WithSelection(s.user_data)
           city_exists == \E i \in 1..Len(user_data.selected_cities) :
                              user_data.selected_cities[i].city_name = city_name
           added == [user_data EXCEPT
                       !.selected_cities = Append(@, SelectedEntry(city_name, hour)),
                       !.city_times = DictSet(@, city_name, hour)]
       IN  sess' = IF city_exists
                   THEN [s EXCEPT !.op = "time", !.user_data = user_data]
                   ELSE [update_session(s, added) EXCEPT
                           !.op = "time", !.user_data = added, !.delivered = FALSE]
    /\ UNCHANGED <<has_table, table, imports, selected_cities, specific_only, last, wx,
                   fetch, art, ai, udb, bot, cli>>

\* callback "clear_cities": the selection is emptied and the stored row deleted
CallbackClearCities ==
    /\ LET s == Restore(sess)
       IN  sess' = [clear_session(s) EXCEPT
                      !.op = "clear_cities", !.user_data = Cleared(s.user_data),
                      !.delivered = FALSE]
    /\ UNCHANGED <<has_table, table, imports, selected_cities, specific_only, last, wx,
                   fetch, art, ai, udb, bot, cli>>

\* callback "gen_artikel": nothing without a selection; with one the
\* article is built and sent, and then the selection in user_data is
\* emptied (lines 2183-2185); a city that is not found or an exception on
\* the way ends the callback before that
CallbackGenArtikel(sent) ==
    /\ LET s == Restore(sess)
       IN  sess' = IF s.user_data.selected_cities = <<>>
                   THEN [s EXCEPT !.op = "gen_artikel: no city"]
                   ELSE IF ~sent
                   THEN [s EXCEPT !.op = "gen_artikel: failed"]
                   ELSE [s EXCEPT !.op = "gen_artikel", !.user_data = Cleared(s.user_data),
                                  !.delivered = TRUE]
    /\ UNCHANGED <<has_table, table, imports, selected_cities, specific_only, last, wx,
                   fetch, art, ai, udb, bot, cli>>

SessionNext ==
    \/ NewApplication
    \/ \E timezone \in SessionZones : CallbackTimezone(timezone)
    \/ \E city_name \in SessionCities, hour \in SessionHours : CallbackTime(city_name, hour)
    \/ CallbackClearCities
    \/ \E sent \in BOOLEAN : CallbackGenArtikel(sent)

SessionSpec == SessionInit /\ [][SessionNext]_vars

\* C28: once gen_artikel has delivered an article (and nothing was selected
\* since), the stored session holds no selected city and no time, so a
\* callback that restores it into an empty user_data starts from an empty
\* selection.
C28_DeliveryClearsStoredSession ==
    sess.delivered
    => /\ get_session(sess).selected_cities = <<>>
       /\ get_session(sess).city_times = EmptyDict
       /\ sess.restored => sess.user_data.selected_cities = <<>>

-----------------------------------------------------------------------------
(* Claims about the number of requests of a call *)

\* the generation and test requests one pass over n keys can make
PassAttempts(n) == n * Len(models)

\* the keys the passes of the running call went over: the keys the call
\* began with and, after the automatic recovery, the extended list as well
KeysPassed(a) == IF a.depth = 0 THEN a.call_keys ELSE a.call_keys + a.keys

\* C29: a call enters _generate_content again at most once, makes at most
\* keys x models generation requests for the keys it began with plus
\* keys x models for the extended list, one test request per key of each
\* pass, and ends.
C29_BoundedAttempts ==
    /\ [](/\ ai.depth <= 1
          /\ ai.attempts <= PassAttempts(KeysPassed(ai))
          /\ ai.tests <= KeysPassed(ai))
    /\ (ai.pc # "idle") ~> (ai.pc = "idle")

\* a call that began with one key went over all its models, was answered
\* 429 by the test request, got a second key, went over all models of both
\* keys and ended
C29_Witness ==
    /\ ai.op = "_generate_content"
    /\ ai.pc = "idle"
    /\ ai.depth = 1
    /\ ai.call_keys = 1
    /\ ai.keys = 2
    /\ ai.attempts = PassAttempts(1) + PassAttempts(2)
    /\ ai.tests = 3

-----------------------------------------------------------------------------
(* Claims about select_random_cities with per-zone counts *)

\* what a zone may contribute for its count argument: nothing for None and
\* for a count that is not positive
CountGiven(count) == IF count = NoCount \/ count < 0 THEN 0 ELSE count

=============================================================================
